---- MODULE Spec2Model ----
(***************************************************************************)
(* A model of libtwc, the twitter word-list compiler.                      *)
(*                                                                         *)
(*   - strings are sequences of Unicode scalar values (code points), as    *)
(*     str::chars() yields them;                                           *)
(*   - a WordMap is a function from words to counts, a LanguageMap a       *)
(*     function from language tags to WordMaps;                            *)
(*   - compile_word_map / TweetCompiler::compile run one closure per       *)
(*     input file on the rayon pool; each closure invocation is a task of  *)
(*     the model, and the thread that called compile is the main thread.   *)
(***************************************************************************)
EXTENDS Integers, Sequences, FiniteSets, TLC

\* ------------------------------------------------------------------ bounds

\* The largest number of directory entries below the input root.
MaxEntries == 2

\* ------------------------------------------------------------- characters

\* The printable ASCII characters, U+0020 .. U+007E, in code point order
\* (U+0060 is written by its name).
Ascii ==
    << " ", "!", "\"", "#", "$", "%", "&", "'", "(", ")", "*", "+", ",", "-",
       ".", "/", "0", "1", "2", "3", "4", "5", "6", "7", "8", "9", ":", ";",
       "<", "=", ">", "?", "@", "A", "B", "C", "D", "E", "F", "G", "H", "I",
       "J", "K", "L", "M", "N", "O", "P", "Q", "R", "S", "T", "U", "V", "W",
       "X", "Y", "Z", "[", "\\", "]", "^", "_", "BACKTICK", "a", "b", "c", "d", "e",
       "f", "g", "h", "i", "j", "k", "l", "m", "n", "o", "p", "q", "r", "s",
       "t", "u", "v", "w", "x", "y", "z", "{", "|", "}", "~" >>

\* The code point of a printable ASCII character.
Ord(c) == 31 + (CHOOSE i \in 1..Len(Ascii) : Ascii[i] = c)

\* The string whose characters are the given printable ASCII characters.
Str(cs) == [i \in 1..Len(cs) |-> Ord(cs[i])]

SPACE == Ord(" ")

\* char::is_whitespace: the code points of the Unicode White_Space property.
Whitespace ==
    (9..13) \cup {32, 133, 160, 5760, 8232, 8233, 8239, 8287, 12288}
            \cup (8192..8202)

\* The table N of core::unicode: the ranges of the code points above U+007F
\* whose general category is Nd, Nl or No (Unicode 17.0), as << first, last >>.
NumericRanges ==
    { << 178, 179 >>, << 185, 185 >>, << 188, 190 >>, << 1632, 1641 >>,
      << 1776, 1785 >>, << 1984, 1993 >>, << 2406, 2415 >>, << 2534, 2543 >>,
      << 2548, 2553 >>, << 2662, 2671 >>, << 2790, 2799 >>, << 2918, 2927 >>,
      << 2930, 2935 >>, << 3046, 3058 >>, << 3174, 3183 >>, << 3192, 3198 >>,
      << 3302, 3311 >>, << 3416, 3422 >>, << 3430, 3448 >>, << 3558, 3567 >>,
      << 3664, 3673 >>, << 3792, 3801 >>, << 3872, 3891 >>, << 4160, 4169 >>,
      << 4240, 4249 >>, << 4969, 4988 >>, << 5870, 5872 >>, << 6112, 6121 >>,
      << 6128, 6137 >>, << 6160, 6169 >>, << 6470, 6479 >>, << 6608, 6618 >>,
      << 6784, 6793 >>, << 6800, 6809 >>, << 6992, 7001 >>, << 7088, 7097 >>,
      << 7232, 7241 >>, << 7248, 7257 >>, << 8304, 8304 >>, << 8308, 8313 >>,
      << 8320, 8329 >>, << 8528, 8578 >>, << 8581, 8585 >>, << 9312, 9371 >>,
      << 9450, 9471 >>, << 10102, 10131 >>, << 11517, 11517 >>,
      << 12295, 12295 >>, << 12321, 12329 >>, << 12344, 12346 >>,
      << 12690, 12693 >>, << 12832, 12841 >>, << 12872, 12879 >>,
      << 12881, 12895 >>, << 12928, 12937 >>, << 12977, 12991 >>,
      << 42528, 42537 >>, << 42726, 42735 >>, << 43056, 43061 >>,
      << 43216, 43225 >>, << 43264, 43273 >>, << 43472, 43481 >>,
      << 43504, 43513 >>, << 43600, 43609 >>, << 44016, 44025 >>,
      << 65296, 65305 >>, << 65799, 65843 >>, << 65856, 65912 >>,
      << 65930, 65931 >>, << 66273, 66299 >>, << 66336, 66339 >>,
      << 66369, 66369 >>, << 66378, 66378 >>, << 66513, 66517 >>,
      << 66720, 66729 >>, << 67672, 67679 >>, << 67705, 67711 >>,
      << 67751, 67759 >>, << 67835, 67839 >>, << 67862, 67867 >>,
      << 68028, 68029 >>, << 68032, 68047 >>, << 68050, 68095 >>,
      << 68160, 68168 >>, << 68221, 68222 >>, << 68253, 68255 >>,
      << 68331, 68335 >>, << 68440, 68447 >>, << 68472, 68479 >>,
      << 68521, 68527 >>, << 68858, 68863 >>, << 68912, 68921 >>,
      << 68928, 68937 >>, << 69216, 69246 >>, << 69405, 69414 >>,
      << 69457, 69460 >>, << 69573, 69579 >>, << 69714, 69743 >>,
      << 69872, 69881 >>, << 69942, 69951 >>, << 70096, 70105 >>,
      << 70113, 70132 >>, << 70384, 70393 >>, << 70736, 70745 >>,
      << 70864, 70873 >>, << 71248, 71257 >>, << 71360, 71369 >>,
      << 71376, 71395 >>, << 71472, 71483 >>, << 71904, 71922 >>,
      << 72016, 72025 >>, << 72688, 72697 >>, << 72784, 72812 >>,
      << 73040, 73049 >>, << 73120, 73129 >>, << 73184, 73193 >>,
      << 73552, 73561 >>,
      << 73664, 73684 >>, << 74752, 74862 >>, << 90416, 90425 >>,
      << 92768, 92777 >>, << 92864, 92873 >>, << 93008, 93017 >>,
      << 93019, 93025 >>, << 93552, 93561 >>, << 93824, 93846 >>,
      << 94196, 94198 >>,
      << 118000, 118009 >>, << 119488, 119507 >>, << 119520, 119539 >>,
      << 119648, 119672 >>, << 120782, 120831 >>, << 123200, 123209 >>,
      << 123632, 123641 >>, << 124144, 124153 >>, << 124401, 124410 >>,
      << 125127, 125135 >>, << 125264, 125273 >>, << 126065, 126123 >>,
      << 126125, 126127 >>, << 126129, 126132 >>, << 126209, 126253 >>,
      << 126255, 126269 >>, << 127232, 127244 >>, << 130032, 130041 >> }

\* char::is_numeric: an ASCII digit, or a code point above U+007F of the
\* table N.
IsNumeric(c) ==
    \/ c \in 48..57
    \/ c > 127 /\ \E r \in NumericRanges : r[1] <= c /\ c <= r[2]

\* char::is_ascii_control: U+0000 .. U+001F and U+007F.
IsAsciiControl(c) == c \in 0..31 \/ c = 127

\* char::is_ascii_alphabetic.
IsAsciiAlpha(c) == c \in 65..90 \/ c \in 97..122

\* zalgo::is_zalgo: a character of the tables UP, MIDDLE and DOWN of the
\* zalgo crate, which hold the combining diacritical marks U+0300 .. U+036F
\* and U+0489, the combining Cyrillic millions sign.
IsZalgoChar(c) == c \in 768..879 \/ c = 1161

StartsWith(s, p) == Len(s) >= Len(p) /\ SubSeq(s, 1, Len(p)) = p

EndsWith(s, p) ==
    Len(s) >= Len(p) /\ SubSeq(s, Len(s) - Len(p) + 1, Len(s)) = p

\* The member of a set of one member. A chain of calls is written as nested
\* sets of one member, which names the result of each call.
The(S) == CHOOSE x \in S : TRUE

\* str::trim_matches: the string without its longest prefix and its longest
\* suffix of characters of the set.
TrimMatches(s, chars) ==
    LET keep == {i \in 1..Len(s) : s[i] \notin chars}
    IN  IF keep = {} THEN << >>
        ELSE LET first == CHOOSE i \in keep : \A j \in keep : i <= j
                 last  == CHOOSE i \in keep : \A j \in keep : j <= i
             IN  SubSeq(s, first, last)

\* str::split(' '): the pieces between the spaces; n spaces give n + 1
\* pieces, empty ones included.
RECURSIVE Split(_)
Split(s) ==
    IF \A i \in 1..Len(s) : s[i] # SPACE THEN << s >>
    ELSE << SubSeq(s, 1, (CHOOSE i \in 1..Len(s) :
                             /\ s[i] = SPACE
                             /\ \A j \in 1..(i - 1) : s[j] # SPACE) - 1) >>
         \o Split(SubSeq(s, (CHOOSE i \in 1..Len(s) :
                                /\ s[i] = SPACE
                                /\ \A j \in 1..(i - 1) : s[j] # SPACE) + 1, Len(s)))

\* -------------------------------------------------------- token cleanup

\* SYMBOLS of cleanup_word in lib.rs.
LibCleanupSymbols ==
    {9, 10, 13, 33, 34, 36, 37, 38, 39, 40, 41, 42, 43, 44, 45, 46, 47, 60, 61,
     62, 63, 91, 92, 93, 94, 95, 96, 123, 124, 125, 126}

\* QUOTATION_MARKS and SYMBOLS of cleanup_word in util.rs.
QuotationMarks ==
    {34, 39, 96, 8216, 8217, 8218, 8220, 8221, 8222, 8223, 10075, 10076,
     10077, 10078, 12317, 12318, 12319, 65282}

UtilCleanupSymbols ==
    {9, 10, 13, 33, 36, 37, 38, 40, 41, 42, 43, 44, 45, 46, 47, 60, 61, 62, 63,
     91, 92, 93, 94, 95, 123, 124, 125, 126}

\* cleanup_word of lib.rs: trim whitespace, then trim the symbols.
lib_cleanup_word(word) ==
    The({TrimMatches(trimmed, LibCleanupSymbols) :
            trimmed \in {TrimMatches(w, Whitespace) : w \in {word}}})

\* cleanup_word of util.rs: trim whitespace, then the quotation marks, then
\* the symbols.
util_cleanup_word(word) ==
    The({TrimMatches(unquoted, UtilCleanupSymbols) :
            unquoted \in {TrimMatches(trimmed, QuotationMarks) :
                             trimmed \in {TrimMatches(w, Whitespace) : w \in {word}}}})

\* -------------------------------------------------- token qualification

\* SYMBOLS of is_only_symbols.
OnlySymbols ==
    {9, 10, 13, 33, 34, 35, 36, 37, 38, 39, 40, 41, 42, 43, 44, 45, 46, 47, 60,
     61, 62, 63, 64, 91, 92, 93, 94, 95, 96, 123, 124, 125, 126}

\* URL_PREFIXES of is_url.
URL_PREFIXES ==
    { Str(<< "h", "t", "t", "p", ":", "/", "/" >>),
      Str(<< "h", "t", "t", "p", "s", ":", "/", "/" >>),
      Str(<< "f", "t", "p", ":", "/", "/" >>),
      Str(<< "s", "f", "t", "p", ":", "/", "/" >>),
      Str(<< "d", "a", "t", "a", ":" >>) }

\* The schemes the URL parser calls special, but for file.
SpecialSchemes ==
    { Str(<< "h", "t", "t", "p" >>), Str(<< "h", "t", "t", "p", "s" >>),
      Str(<< "f", "t", "p" >>), Str(<< "w", "s" >>), Str(<< "w", "s", "s" >>) }

Lower(c) == IF c \in 65..90 THEN c + 32 ELSE c

\* The least and the greatest member of a non-empty set of positions.
Min(S) == CHOOSE i \in S : \A j \in S : i <= j
Max(S) == CHOOSE i \in S : \A j \in S : j <= i

\* The positions of the string that hold one of the characters.
Positions(s, chars) == {i \in 1..Len(s) : s[i] \in chars}

\* The string up to the first of the characters, and the string after the
\* last of them (the whole string when it holds none).
Before(s, chars) ==
    IF Positions(s, chars) = {} THEN s
    ELSE SubSeq(s, 1, Min(Positions(s, chars)) - 1)

AfterLast(s, chars) ==
    IF Positions(s, chars) = {} THEN s
    ELSE SubSeq(s, Max(Positions(s, chars)) + 1, Len(s))

Slashes == {Ord("/"), Ord("\\")}

IsSchemeChar(c) ==
    IsAsciiAlpha(c) \/ c \in 48..57 \/ c \in {Ord("+"), Ord("-"), Ord(".")}

\* The position of the colon that ends a URL scheme (a letter, then letters,
\* digits, +, - and .), or 0 when the string starts with no scheme.
SchemeEnd(s) ==
    IF /\ Positions(s, {Ord(":")}) # {}
       /\ Len(s) > 0
       /\ IsAsciiAlpha(s[1])
       /\ \A i \in 1..(Min(Positions(s, {Ord(":")})) - 1) : IsSchemeChar(s[i])
    THEN Min(Positions(s, {Ord(":")}))
    ELSE 0

\* ------------------------------------------------------------ Url::parse
\* Url::parse of the url crate (2.5), as far as it decides between Ok and
\* Err: the parser without a base URL, with its host parser (host.rs).

\* Input::new_trim_c0_control_and_space, and Input's iterator, which skips
\* every tab, LF and CR: the string as the parser reads it.
Input(s) ==
    SelectSeq(TrimMatches(s, 0..32), LAMBDA c : c \notin {9, 10, 13})

HexDigits == (48..57) \cup (65..70) \cup (97..102)

\* char::to_digit: the digit a hexadecimal digit stands for.
Digit(c) ==
    IF c \in 48..57 THEN c - 48 ELSE IF c \in 97..102 THEN c - 87 ELSE c - 55

\* The number that the digits s[a] .. s[b] write in the radix.
RECURSIVE Value(_, _, _, _)
Value(s, a, b, radix) ==
    IF b < a THEN 0 ELSE Value(s, a, b - 1, radix) * radix + Digit(s[b])

\* The position of the first digit that is no leading zero (past the end of
\* a string of zeros only).
Significant(s) == Min({i \in 1..(Len(s) + 1) : i > Len(s) \/ s[i] # 48})

\* Parser::parse_port: ASCII digits up to /, \, ? or # whose number, leading
\* zeros aside, stays within u16.
parse_port(s) ==
    \E port \in {Before(s, {47, 92, 63, 35})} :
        /\ \A i \in 1..Len(port) : port[i] \in 48..57
        /\ Len(port) - Significant(port) < 5
        /\ Value(port, Significant(port), Len(port), 10) <= 65535

\* The embedded IPv4 address of parse_ipv6addr, from position i on, after
\* seen numbers: four numbers up to 255 without leading zeros, with dots
\* between them.
RECURSIVE Ipv4InIpv6(_, _, _)
Ipv4InIpv6(s, i, seen) ==
    IF i > Len(s) THEN seen = 4
    ELSE /\ seen > 0 => (seen < 4 /\ s[i] = 46)
         /\ \E start \in {IF seen > 0 THEN i + 1 ELSE i} :
            \E j \in {Min({k \in start..(Len(s) + 1) :
                              k > Len(s) \/ s[k] \notin 48..57})} :
                /\ j > start
                /\ j - start > 1 => s[start] # 48
                /\ j - start <= 3
                /\ Value(s, start, j - 1, 10) <= 255
                /\ Ipv4InIpv6(s, j, seen + 1)

\* The main loop of parse_ipv6addr from position i on, with the number of
\* pieces read and whether a :: was read, and the checks after the loop; j is
\* the end of the run of up to four hexadecimal digits that starts at i.
RECURSIVE Ipv6From(_, _, _, _)
Ipv6From(s, i, pieces, compressed) ==
    IF i > Len(s) THEN compressed \/ pieces = 8
    ELSE IF pieces = 8 THEN FALSE
    ELSE IF s[i] = 58 THEN ~compressed /\ Ipv6From(s, i + 1, pieces + 1, TRUE)
    ELSE \E j \in {Min({k \in i..(i + 4) :
                           k > Len(s) \/ k = i + 4 \/ s[k] \notin HexDigits})} :
            IF j > Len(s) THEN compressed \/ pieces + 1 = 8
            ELSE IF s[j] = 46
                 THEN /\ j > i
                      /\ pieces <= 6
                      /\ compressed \/ pieces + 2 = 8
                      /\ Ipv4InIpv6(s, i, 0)
            ELSE IF s[j] = 58
                 THEN j < Len(s) /\ Ipv6From(s, j + 1, pieces + 1, compressed)
            ELSE FALSE

\* parse_ipv6addr(input).is_ok().
parse_ipv6addr(s) ==
    /\ Len(s) >= 2
    /\ IF s[1] = 58 THEN s[2] = 58 /\ Ipv6From(s, 3, 1, TRUE)
       ELSE Ipv6From(s, 1, 0, FALSE)

\* Whether the string starts a percent escape at position i.
IsEscape(s, i) ==
    /\ s[i] = 37
    /\ i + 2 <= Len(s)
    /\ s[i + 1] \in HexDigits
    /\ s[i + 2] \in HexDigits

\* percent_decode: every escape becomes its byte. A byte below 128 is the
\* character it encodes; a byte b from 128 on is written -b, to tell it from
\* a character of the string.
percent_decode(s) ==
    SelectSeq([i \in 1..Len(s) |->
                  IF IsEscape(s, i)
                  THEN IF s[i + 1] \in 48..55
                       THEN 16 * Digit(s[i + 1]) + Digit(s[i + 2])
                       ELSE 0 - (16 * Digit(s[i + 1]) + Digit(s[i + 2]))
                  ELSE IF \/ i > 1 /\ IsEscape(s, i - 1)
                          \/ i > 2 /\ IsEscape(s, i - 2)
                       THEN -1
                  ELSE s[i]],
              LAMBDA x : x # -1)

\* The length of the UTF-8 sequence a byte leads (0: the byte leads none).
Utf8Width(b) ==
    IF b \in 194..223 THEN 2
    ELSE IF b \in 224..239 THEN 3
    ELSE IF b \in 240..244 THEN 4
    ELSE 0

\* The parts of a string between its dots, as << first, last >> positions
\* (last is first - 1 for an empty part).
DotParts(s) ==
    { << a + 1, Min({b \in Positions(s, {46}) \cup {Len(s) + 1} : b > a}) - 1 >> :
         a \in Positions(s, {46}) \cup {0} }

\* The number of bytes, from the byte at i on, that begin a well-formed UTF-8
\* sequence (Utf8Chunks): one for a byte that leads none.
Utf8Prefix(d, i) ==
    Max({1} \cup
        {k \in 2..Utf8Width(0 - d[i]) :
            /\ i + k - 1 <= Len(d)
            /\ 0 - d[i + 1] \in (IF d[i] = -224 THEN 160..191
                                 ELSE IF d[i] = -237 THEN 128..159
                                 ELSE IF d[i] = -240 THEN 144..191
                                 ELSE IF d[i] = -244 THEN 128..143
                                 ELSE 128..191)
            /\ \A j \in 2..(k - 1) : 0 - d[i + j] \in 128..191})

\* Whether a well-formed UTF-8 sequence of decoded bytes starts at i.
Utf8At(d, i) ==
    /\ d[i] < -1
    /\ Utf8Width(0 - d[i]) > 0
    /\ Utf8Prefix(d, i) = Utf8Width(0 - d[i])

\* The code point of the UTF-8 sequence that starts at i.
Utf8CodePoint(d, i) ==
    IF Utf8Width(0 - d[i]) = 2
    THEN (0 - d[i] - 192) * 64 + (0 - d[i + 1] - 128)
    ELSE IF Utf8Width(0 - d[i]) = 3
    THEN (0 - d[i] - 224) * 4096 + (0 - d[i + 1] - 128) * 64
            + (0 - d[i + 2] - 128)
    ELSE (0 - d[i] - 240) * 262144 + (0 - d[i + 1] - 128) * 4096
            + (0 - d[i + 2] - 128) * 64 + (0 - d[i + 3] - 128)

\* decode_utf8_lossy, the characters of the percent-decoded host: the decoded
\* bytes from 128 on are read as UTF-8, and U+FFFD stands for every byte of
\* no sequence and for every sequence that is cut short, whose bytes are the
\* longest beginning of a well-formed one.
Utf8Decode(d) ==
    SelectSeq([i \in 1..Len(d) |->
                  IF d[i] >= 0 THEN d[i]
                  ELSE IF Utf8At(d, i) THEN Utf8CodePoint(d, i)
                  ELSE IF \E k \in 1..3 :
                             /\ i - k >= 1
                             /\ d[i - k] < -1
                             /\ Utf8Width(0 - d[i - k]) > 0
                             /\ Utf8Prefix(d, i - k) > k
                       THEN -1
                  ELSE 65533],
              LAMBDA x : x # -1)

\* adapt of punycode.rs: the bias after a delta.
adapt(delta, num_points, first_time) ==
    LET damped == IF first_time THEN delta \div 700 ELSE delta \div 2
        grown  == damped + damped \div num_points
        loops  == Min({j \in 0..6 : grown \div (35 ^ j) <= 455})
        rest   == grown \div (35 ^ loops)
    IN  36 * loops + (36 * rest) \div (rest + 38)

\* The inner loop of Decoder::decode: the generalized variable-length integer
\* that starts at position p is added to i. The value is << position after
\* the integer, i >>, or << 0, 0 >> for Err: a character that is no digit
\* (a .. z are the digits 0 .. 25 and 0 .. 9 the digits 26 .. 35; the label
\* is in lower case),
\* the end of the input inside the integer, or an overflow of i or of the
\* weight. i and the weight are u32 in the code; here a weight from 2^31 on
\* that is a u32 is written 0 (only the digit 0 may follow it), and an i
\* from 2^31 on is Err, as it is in the code by overflow or, the decoded
\* label having 1000 characters at most, by a code point beyond U+10FFFF.
RECURSIVE DecodeInteger(_, _, _, _, _, _)
DecodeInteger(s, p, i, weight, k, bias) ==
    LET digit == IF s[p] \in 97..122 THEN s[p] - 97
                 ELSE IF s[p] \in 48..57 THEN s[p] - 22
                 ELSE -1
        t == IF k <= bias THEN 1 ELSE IF k >= bias + 26 THEN 26 ELSE k - bias
    IN  IF digit < 0 THEN << 0, 0 >>
        ELSE IF weight = 0
        THEN IF digit = 0 THEN << p + 1, i >> ELSE << 0, 0 >>
        ELSE IF digit > (2147483647 - i) \div weight THEN << 0, 0 >>
        ELSE IF digit < t THEN << p + 1, i + digit * weight >>
        ELSE IF p = Len(s) THEN << 0, 0 >>
        ELSE IF weight <= 2147483647 \div (36 - t)
        THEN DecodeInteger(s, p + 1, i + digit * weight, weight * (36 - t),
                           k + 36, bias)
        ELSE IF weight <= 2 * (2147483647 \div (36 - t))
                             + (2 * (2147483647 % (36 - t)) + 1) \div (36 - t)
        THEN DecodeInteger(s, p + 1, i + digit * weight, 0, k + 36, bias)
        ELSE << 0, 0 >>

\* The outer loop of Decoder::decode, from position p of the digits on, and
\* the checks of Uts46 on the label it gives. Every integer decodes, and the
\* code point it gives is a char (char::from_u32) other than U+FFFD, which
\* Uts46 takes for the mark of an error; first is the code point inserted at
\* the start of the label, 0 while there is none. At the end the label has
\* 1000 characters at most (PUNYCODE_ENCODE_MAX_INPUT_LENGTH) and does not
\* begin with U+200C or U+200D (check_label, the rule ContextJ: after
\* another character a joiner passes, since is_virama of the ASCII-only
\* idna_adapter holds of every character).
RECURSIVE DecodeFrom(_, _, _, _, _, _, _)
DecodeFrom(s, p, i, code_point, bias, length, first) ==
    IF p > Len(s) THEN length <= 1000 /\ first \notin {8204, 8205}
    ELSE \E r \in {DecodeInteger(s, p, i, 1, 36, bias)} :
            /\ r[1] # 0
            /\ r[2] \div (length + 1) <= 1114111 - code_point
            /\ \E c \in {code_point + r[2] \div (length + 1)} :
                  /\ c \notin 55296..57343
                  /\ c # 65533
                  /\ DecodeFrom(s, r[1], (r[2] % (length + 1)) + 1, c,
                                adapt(r[2] - i, length + 1, i = 0),
                                length + 1,
                                IF r[2] % (length + 1) = 0 THEN c ELSE first)

\* idna::domain_to_ascii_cow(domain, AsciiDenyList::URL).is_ok(), with the
\* ASCII-only idna_adapter (1.0.0) that the build resolves: every character
\* is ASCII and none is on the deny list, which holds U+0000 .. U+0020,
\* U+007F and % # / : < > ? @ [ \ ] ^ |; and for every label with the
\* Punycode prefix xn--, what follows the prefix has 2000 characters at most
\* (PUNYCODE_DECODE_MAX_INPUT_LENGTH), Decoder::decode of it is Ok, and the
\* label it gives is not all ASCII and passes the checks of Uts46. The basic
\* code points are those before the last hyphen; a hyphen at the start stays
\* among the digits, which is Err. The domain is in lower case.
domain_to_ascii_is_ok(d) ==
    /\ \A i \in 1..Len(d) :
          /\ d[i] \in 33..126
          /\ d[i] \notin {37, 35, 47, 58, 60, 62, 63, 64, 91, 92, 93, 94, 124}
    /\ \A p \in DotParts(d) :
          StartsWith(SubSeq(d, p[1], p[2]), Str(<< "x", "n", "-", "-" >>)) =>
             \E payload \in {SubSeq(d, p[1] + 4, p[2])} :
             \E hyphen \in {Max(Positions(payload, {45}) \cup {0})} :
                /\ Len(payload) <= 2000
                /\ hyphen # 1
                /\ hyphen < Len(payload)
                /\ DecodeFrom(SubSeq(payload, hyphen + 1, Len(payload)),
                              1, 0, 128, 72,
                              IF hyphen = 0 THEN 0 ELSE hyphen - 1, 0)

\* The radix of parse_ipv4number: 16 after 0x, 8 after a 0 that is followed
\* by more, else 10. The input is lower-cased by domain_to_ascii.
Ipv4Radix(part) ==
    IF Len(part) >= 2 /\ part[1] = 48 /\ part[2] = 120 THEN 16
    ELSE IF Len(part) >= 2 /\ part[1] = 48 THEN 8
    ELSE 10

\* The digits of the number, after the prefix of its radix.
Ipv4Digits(part) ==
    SubSeq(part, IF Ipv4Radix(part) = 16 THEN 3
                 ELSE IF Ipv4Radix(part) = 8 THEN 2 ELSE 1, Len(part))

\* parse_ipv4number(part).is_ok(): the part is not empty and its digits are
\* digits of its radix (after the prefix there may be none).
parse_ipv4number_is_ok(part) ==
    /\ part # << >>
    /\ \A i \in 1..Len(Ipv4Digits(part)) :
          /\ Ipv4Digits(part)[i] \in HexDigits
          /\ Digit(Ipv4Digits(part)[i]) < Ipv4Radix(part)

\* Whether the number of the digits in the radix is below 2^bits, bits being
\* 8, 16 or 24: leading zeros aside, the digits are few enough for the
\* number to stay below 2^31, and it is below 2^bits.
NumberBelow(digits, radix, bits) ==
    /\ Len(digits) - Significant(digits) < (IF radix = 16 THEN 7
                                             ELSE IF radix = 8 THEN 10 ELSE 9)
    /\ Value(digits, Significant(digits), Len(digits), radix) < 2 ^ bits

\* Whether u32::from_str_radix(digits, radix) is Ok: the number is below
\* 2^32.
NumberIsU32(digits, radix) ==
    \E n \in {Len(digits) - Significant(digits) + 1} :
        IF radix = 16 THEN n <= 8
        ELSE IF radix = 8
        THEN n <= 10 \/ (n = 11 /\ digits[Significant(digits)] \in 48..51)
        ELSE \/ n <= 9
             \/ /\ n = 10
                /\ \E high \in {Value(digits, Significant(digits),
                                      Len(digits) - 1, 10)} :
                      \/ high < 429496729
                      \/ high = 429496729 /\ digits[Len(digits)] \in 48..53

\* The domain without the one dot it may end with.
WithoutLastDot(domain) ==
    IF domain # << >> /\ domain[Len(domain)] = 46
    THEN SubSeq(domain, 1, Len(domain) - 1)
    ELSE domain

\* ends_in_a_number: the last part, the one before it when the last is
\* empty, is a string of digits or a number of parse_ipv4number.
ends_in_a_number(domain) ==
    \E last \in {AfterLast(WithoutLastDot(domain), {46})} :
        \/ last # << >> /\ \A i \in 1..Len(last) : last[i] \in 48..57
        \/ parse_ipv4number_is_ok(last)

\* parse_ipv4addr(domain).is_ok(): at most four parts, each a number below
\* 2^32, the last below 256^(5 - parts), the others up to 255.
parse_ipv4addr(domain) ==
    \E d \in {WithoutLastDot(domain)} :
        /\ Cardinality(DotParts(d)) <= 4
        /\ \A p \in DotParts(d) :
              \E part \in {SubSeq(d, p[1], p[2])} :
                 /\ parse_ipv4number_is_ok(part)
                 /\ NumberIsU32(Ipv4Digits(part), Ipv4Radix(part))
                 /\ IF p[2] < Len(d)
                    THEN NumberBelow(Ipv4Digits(part), Ipv4Radix(part), 8)
                    ELSE \/ Cardinality(DotParts(d)) = 1
                         \/ NumberBelow(Ipv4Digits(part), Ipv4Radix(part),
                                        8 * (5 - Cardinality(DotParts(d))))

\* Host::parse(input).is_ok(), for a host that is not empty: an IPv6 address
\* in brackets, or a percent-encoded domain that, decoded and lower-cased, is
\* a valid domain and, when it ends in a number, an IPv4 address.
Host_parse(input) ==
    IF input[1] = 91
    THEN /\ input[Len(input)] = 93
         /\ parse_ipv6addr(SubSeq(input, 2, Len(input) - 1))
    ELSE \E decoded \in {Utf8Decode(percent_decode(input))} :
         \E domain \in {[i \in 1..Len(decoded) |-> Lower(decoded[i])]} :
            /\ domain_to_ascii_is_ok(domain)
            /\ ends_in_a_number(domain) => parse_ipv4addr(domain)

\* Host::parse_opaque(input).is_ok(): an IPv6 address in brackets, or a
\* string without forbidden host code points, which are NUL, tab, LF, CR,
\* space and # / : < > ? @ [ \ ] ^ |.
parse_opaque(input) ==
    IF input # << >> /\ input[1] = 91
    THEN /\ input[Len(input)] = 93
         /\ parse_ipv6addr(SubSeq(input, 2, Len(input) - 1))
    ELSE \A i \in 1..Len(input) :
            input[i] \notin {0, 9, 10, 13, 32, 35, 47, 58, 60, 62, 63, 64, 91,
                             92, 93, 94, 124}

\* The characters that end the authority: /, ? and #, and \ in a special URL.
AuthorityEnd(special) == IF special THEN {47, 63, 35, 92} ELSE {47, 63, 35}

\* Parser::parse_host: the position after the host, that is the first end
\* of the authority or colon outside square brackets (a colon is inside
\* them when it follows a [ that no ] closes).
HostEnd(s, special) ==
    Min({i \in 1..(Len(s) + 1) :
            \/ i > Len(s)
            \/ s[i] \in AuthorityEnd(special)
            \/ /\ s[i] = 58
               /\ ~\E j \in 1..(i - 1) :
                      s[j] = 91 /\ \A k \in (j + 1)..(i - 1) : s[k] # 93})

\* Parser::parse_host_and_port(..).is_ok(), and the check for credentials
\* without a host that after_double_slash makes.
parse_host_and_port(remaining, special, has_authority) ==
    \E e \in {HostEnd(remaining, special)} :
    \E host \in {SubSeq(remaining, 1, e - 1)} :
    \E colon \in {e <= Len(remaining) /\ remaining[e] = 58} :
        /\ IF special THEN host # << >> /\ Host_parse(host)
           ELSE parse_opaque(host)
        /\ host = << >> => ~colon
        /\ colon => parse_port(SubSeq(remaining, e + 1, Len(remaining)))
        /\ host = << >> => ~has_authority

\* Parser::after_double_slash(..).is_ok(): parse_userinfo takes what stands
\* before the last @ of the authority (an authority that is a lone @ before
\* its end is an error; credentials are written unless they are empty or a
\* lone colon), then the host and the port are parsed.
after_double_slash(input, special) ==
    \E at \in {Max(Positions(Before(input, AuthorityEnd(special)), {64})
                    \cup {0})} :
        /\ ~(at = 1 /\ Len(input) >= 2 /\ input[2] \in AuthorityEnd(special))
        /\ parse_host_and_port(SubSeq(input, at + 1, Len(input)), special,
                               at > 1 /\ SubSeq(input, 1, at - 1) # << 58 >>)

\* is_windows_drive_letter: a letter, then : or |.
is_windows_drive_letter(segment) ==
    Len(segment) = 2 /\ IsAsciiAlpha(segment[1]) /\ segment[2] \in {58, 124}

\* Parser::parse_file(..).is_ok(), without a base URL: after two slashes
\* comes a host, up to /, \, ? or #, which is empty, a drive letter or a
\* host of Host::parse.
parse_file(input) ==
    (Len(input) >= 2 /\ input[1] \in Slashes /\ input[2] \in Slashes)
        => \E host \in {Before(SubSeq(input, 3, Len(input)), {47, 92, 63, 35})} :
              \/ host = << >>
              \/ is_windows_drive_letter(host)
              \/ Host_parse(host)

\* Parser::parse_with_scheme(..).is_ok(), for the input whose scheme ends
\* at position k: a file URL, a special URL, whose authority follows any
\* number of slashes and backslashes (Input::count_matching), or another
\* URL, which has an authority after //.
parse_with_scheme(t, k) ==
    \E scheme \in {[i \in 1..(k - 1) |-> Lower(t[i])]} :
    \E input \in {SubSeq(t, k + 1, Len(t))} :
        IF scheme = Str(<< "f", "i", "l", "e" >>) THEN parse_file(input)
        ELSE IF scheme \in SpecialSchemes
        THEN \E rest \in {SubSeq(input,
                                  Min({i \in 1..(Len(input) + 1) :
                                          \/ i > Len(input)
                                          \/ input[i] \notin Slashes}),
                                  Len(input))} :
                after_double_slash(rest, TRUE)
        ELSE StartsWith(input, << 47, 47 >>)
                => \E rest \in {SubSeq(input, 3, Len(input))} :
                      after_double_slash(rest, FALSE)

\* Url::parse(s).is_ok(): the input has a scheme (parse_scheme) and what
\* follows the scheme parses.
UrlParseIsOk(s) ==
    \E t \in {Input(s)} :
    \E k \in {SchemeEnd(t)} : k > 0 /\ parse_with_scheme(t, k)

is_url(s) ==
    LET is_proper_url == UrlParseIsOk(s)
        is_improper_url == \E prefix \in URL_PREFIXES : StartsWith(s, prefix)
    IN  is_proper_url \/ is_improper_url

\* The Fitzpatrick modifiers U+1F3FB .. U+1F3FF, the emoticons block
\* U+1F600 .. U+1F64F.
is_emoji(s) ==
    \A i \in 1..Len(s) : s[i] \in 127995..127999 \/ s[i] \in 128512..128591

is_only_symbols(s) == \A i \in 1..Len(s) : s[i] \in OnlySymbols

\* count / len > 0.75 in f64; 0 / 0 is NaN, which is not above the ratio.
is_zalgo(s) ==
    /\ Len(s) > 0
    /\ 4 * Cardinality({i \in 1..Len(s) : IsZalgoChar(s[i])}) > 3 * Len(s)

\* A slip: the match without its arm for empty and short strings.
word_qualifies_any_length(s) ==
    IF StartsWith(s, Str(<< "@" >>)) THEN FALSE
    ELSE IF StartsWith(s, Str(<< "#" >>)) THEN FALSE
    ELSE IF is_url(s) THEN FALSE
    ELSE IF \A i \in 1..Len(s) : IsNumeric(s[i]) THEN FALSE
    ELSE IF is_emoji(s) THEN FALSE
    ELSE IF \A i \in 1..Len(s) : IsAsciiControl(s[i]) THEN FALSE
    ELSE IF StartsWith(s, Str(<< "&" >>)) /\ EndsWith(s, Str(<< ";" >>)) THEN FALSE
    ELSE IF is_only_symbols(s) THEN FALSE
    ELSE IF is_zalgo(s) THEN FALSE
    ELSE IF s = Str(<< "R", "T" >>) THEN FALSE
    ELSE TRUE

\* A slip: the match without its arm for the retweet marker.
word_qualifies_keeps_rt(s) ==
    IF Len(s) = 0 \/ Len(s) = 1 THEN FALSE
    ELSE IF StartsWith(s, Str(<< "@" >>)) THEN FALSE
    ELSE IF StartsWith(s, Str(<< "#" >>)) THEN FALSE
    ELSE IF is_url(s) THEN FALSE
    ELSE IF \A i \in 1..Len(s) : IsNumeric(s[i]) THEN FALSE
    ELSE IF is_emoji(s) THEN FALSE
    ELSE IF \A i \in 1..Len(s) : IsAsciiControl(s[i]) THEN FALSE
    ELSE IF StartsWith(s, Str(<< "&" >>)) /\ EndsWith(s, Str(<< ";" >>)) THEN FALSE
    ELSE IF is_only_symbols(s) THEN FALSE
    ELSE IF is_zalgo(s) THEN FALSE
    ELSE TRUE

\* word_qualifies, the match arms in their order (lib.rs and util.rs hold
\* the same function).
word_qualifies(s) ==
    IF Len(s) = 0 \/ Len(s) = 1 THEN FALSE
    ELSE IF StartsWith(s, Str(<< "@" >>)) THEN FALSE
    ELSE IF StartsWith(s, Str(<< "#" >>)) THEN FALSE
    ELSE IF is_url(s) THEN FALSE
    ELSE IF \A i \in 1..Len(s) : IsNumeric(s[i]) THEN FALSE
    ELSE IF is_emoji(s) THEN FALSE
    ELSE IF \A i \in 1..Len(s) : IsAsciiControl(s[i]) THEN FALSE
    ELSE IF StartsWith(s, Str(<< "&" >>)) /\ EndsWith(s, Str(<< ";" >>)) THEN FALSE
    ELSE IF is_only_symbols(s) THEN FALSE
    ELSE IF is_zalgo(s) THEN FALSE
    ELSE IF s = Str(<< "R", "T" >>) THEN FALSE
    ELSE TRUE

\* ------------------------------------------------------------------ maps

\* HashMap::new().
EmptyMap == << >>

\* The map with key bound to value, and every other key as before.
Put(map, key, value) == (key :> value) @@ map

Remove(map, key) == [k \in DOMAIN map \ {key} |-> map[k]]

\* A slip: insert(key, default) in place of entry(key).or_default(), which
\* overwrites an entry the map holds.
or_default_insert(map, key, default) == Put(map, key, default)

\* map.entry(key).or_default(): the key is inserted with the default value
\* unless the map holds it.
or_default(map, key, default) ==
    IF key \in DOMAIN map THEN map ELSE Put(map, key, default)

\* ----------------------------------------------------------------- inputs

\* The words joined by single spaces (an empty word gives two spaces in a row).
RECURSIVE Join(_)
Join(words) ==
    IF words = << >> THEN << >>
    ELSE IF Len(words) = 1 THEN Head(words)
    ELSE Head(words) \o << SPACE >> \o Join(Tail(words))

\* The word n times, joined by single spaces.
RepeatJoin(word, n) ==
    [i \in 1..(n * (Len(word) + 1) - 1) |->
        IF i % (Len(word) + 1) = 0 THEN SPACE ELSE word[i % (Len(word) + 1)]]

TweetLine(lang, text) == [json_ok |-> TRUE, lang |-> lang, text |-> text]

\* A line that is no JSON record of a tweet.
BadLine == [json_ok |-> FALSE, lang |-> "", text |-> << >>]

Bz2File(lines) ==
    [walk_ok |-> TRUE, ext |-> "bz2", readable |-> TRUE, lines |-> lines]

W_hello == Str(<< "h", "e", "l", "l", "o" >>)
W_world == Str(<< "w", "o", "r", "l", "d" >>)
W_bob   == Str(<< "@", "b", "o", "b" >>)
W_hi    == Str(<< "h", "i" >>)
W_ja    == Str(<< "j", "a" >>)
W_num   == Str(<< "1", "2" >>)
W_RT    == Str(<< "R", "T" >>)

\* The two posts of the end-to-end scenario.
ScenarioFile ==
    Bz2File(<< TweetLine("en", Join(<< W_hello, W_world, W_hello >>)),
               TweetLine("en", Join(<< W_bob, W_hello >>)) >>)

\* A file with a line that does not decode between lines that do, two spaces
\* in a row, a word of the scenario under another count, and a post none of
\* whose tokens qualifies.
MixedFile ==
    Bz2File(<< TweetLine("de", Join(<< W_RT, << >>, W_num, W_ja >>)),
               BadLine,
               TweetLine("en", Join(<< W_hello \o Str(<< "," >>), W_ja >>)),
               TweetLine("und", Join(<< W_bob, W_num >>)) >>)

\* A file with a frequent word: "hi" fifty times in English posts and
\* forty-nine times in German ones.
FrequentFile ==
    Bz2File(<< TweetLine("en", RepeatJoin(W_hi, 25)),
               TweetLine("de", RepeatJoin(W_hi, 25)),
               TweetLine("en", Join(<< RepeatJoin(W_hi, 25), W_hello >>)),
               TweetLine("de", RepeatJoin(W_hi, 24)) >>)

W_Hello == Str(<< "H", "e", "l", "l", "o" >>)
W_amp   == Str(<< "&", "a", "m", "p", ";" >>)

\* A file with a word in two casings and once between commas and quotation
\* marks.
CasingFile ==
    Bz2File(<< TweetLine("en", Join(<< W_Hello, W_hello,
                                       Str(<< ",", "\"" >>) \o W_hello
                                          \o Str(<< "\"", "," >>) >>)) >>)

W_url ==
    Str(<< "w", "s", ":", "/", "/", "x", "n", "-", "-", "p", "1", "a", "i" >>)
W_no_url == Str(<< "w", "s", ":", "/", "/", "x", "n", "-", "-", "1" >>)

\* A file with an HTML escape, two spaces in a row, a token of one
\* character, a URL whose host is a label in Punycode, a token that Url::parse
\* fails on since its label does not decode, and a post in another language
\* that is an HTML escape only.
EntityFile ==
    Bz2File(<< TweetLine("en", Join(<< W_amp, << >>, Str(<< "a" >>), W_hi,
                                       W_url, W_no_url >>)),
               TweetLine("fr", W_amp) >>)

\* A file with two short posts in two languages.
ShortFile ==
    Bz2File(<< TweetLine("en", W_hi), TweetLine("de", W_ja) >>)

\* A file that cannot be opened or decompressed.
CorruptFile ==
    [walk_ok |-> TRUE, ext |-> "bz2", readable |-> FALSE,
     lines |-> << TweetLine("en", W_hello) >>]

\* A file without the bz2 extension.
OtherFile ==
    [walk_ok |-> TRUE, ext |-> "txt", readable |-> TRUE,
     lines |-> << TweetLine("en", W_world) >>]

\* A directory entry the walk fails on.
WalkError ==
    [walk_ok |-> FALSE, ext |-> "", readable |-> FALSE, lines |-> << >>]

\* What walking the root yields when the root itself cannot be read.
RootError ==
    [walk_ok |-> FALSE, ext |-> "", readable |-> FALSE, lines |-> << >>]

\* A directory: the walk yields it, it has no extension and reading it fails.
Directory ==
    [walk_ok |-> TRUE, ext |-> "", readable |-> FALSE, lines |-> << >>]

\* The file system below the input root: what is at each path. Entries are
\* named by their file names; entries of the same name are files of the same
\* content in different subdirectories.
Disk(path) ==
    CASE path = "scenario.bz2" -> ScenarioFile
      [] path = "mixed.bz2"    -> MixedFile
      [] path = "frequent.bz2" -> FrequentFile
      [] path = "casing.bz2"   -> CasingFile
      [] path = "entity.bz2"   -> EntityFile
      [] path = "short.bz2"    -> ShortFile
      [] path = "corrupt.bz2"  -> CorruptFile
      [] path = "notes.txt"    -> OtherFile
      [] path = "denied"       -> WalkError
      [] path = "sources"      -> Directory
      [] path = "missing"      -> RootError

Entries == {"scenario.bz2", "mixed.bz2", "corrupt.bz2", "notes.txt", "denied"}

\* The directory trees: up to MaxEntries entries.
Dirs == UNION {[1..n -> Entries] : n \in 0..MaxEntries}

\* The directory trees that hold the file with the frequent word only.
FrequentDirs == UNION {[1..n -> {"frequent.bz2"}] : n \in 0..MaxEntries}

\* The directory trees that hold the files with the tokens to normalize.
TextDirs ==
    UNION {[1..n -> {"casing.bz2", "entity.bz2"}] : n \in 0..MaxEntries}

\* The directory trees of short files and of files that fail.
ShortDirs ==
    UNION {[1..n -> {"short.bz2", "corrupt.bz2"}] : n \in 0..MaxEntries}

\* ------------------------------------------------------- file processing

\* The entry points: compile_word_map of lib.rs, which cleans tokens with
\* the cleanup_word of lib.rs, and TweetCompiler::compile, which cleans them
\* with util::cleanup_word, after each of the constructors of TweetCompiler.
Apis ==
    {"compile_word_map", "TweetCompiler::new", "TweetCompiler::from_directory",
     "TweetCompiler::default"}

cleanup_word(a, word) ==
    IF a = "compile_word_map" THEN lib_cleanup_word(word)
    ELSE util_cleanup_word(word)

\* serde_json::from_str::<Tweet>(line).ok(): the record of a line that
\* decodes, as a sequence of zero or one records.
DecodeLine(line) ==
    IF line.json_ok THEN << [lang |-> line.lang, text |-> line.text] >> ELSE << >>

\* A slip: decoding stops at the first line that does not decode.
RECURSIVE DecodeLines_until_bad(_)
DecodeLines_until_bad(lines) ==
    IF lines = << >> \/ ~Head(lines).json_ok THEN << >>
    ELSE DecodeLine(Head(lines)) \o DecodeLines_until_bad(Tail(lines))

RECURSIVE DecodeLines(_)
DecodeLines(lines) ==
    IF lines = << >> THEN << >>
    ELSE DecodeLine(Head(lines)) \o DecodeLines(Tail(lines))

\* A slip: a failure to open or decompress goes unnoticed, and what could be
\* decoded counts.
read_file_unchecked(filename) ==
    [ok |-> TRUE, tweets |-> DecodeLines(Disk(filename).lines)]

\* read_file: Err when the file cannot be opened or decompressed, else the
\* records of the lines that decode, in order.
read_file(filename) ==
    IF ~Disk(filename).readable THEN [ok |-> FALSE, tweets |-> << >>]
    ELSE [ok |-> TRUE, tweets |-> DecodeLines(Disk(filename).lines)]

\* for word in words { *language_entry.entry(word).or_default() += 1 }, as
\* the loop's result: every word starts at its count in the map, or at the
\* default 0, and is incremented once per occurrence.
CountWords(word_map, words) ==
    LET Occurrences(word) == Cardinality({i \in 1..Len(words) : words[i] = word})
        seen == {words[i] : i \in 1..Len(words)}
    IN  [word \in DOMAIN word_map \cup seen |->
            or_default(word_map, word, 0)[word] + Occurrences(word)]

\* The words of one tweet: its text split at the spaces, each piece cleaned,
\* the pieces that qualify kept.
TweetWords(a, text) ==
    LET pieces  == Split(text)
        cleaned == [i \in 1..Len(pieces) |-> cleanup_word(a, pieces[i])]
    IN  SelectSeq(cleaned, word_qualifies)

\* The first loop of process_tweets: the local map of a file's tweets.
RECURSIVE GroupWords(_, _, _)
GroupWords(a, local, tws) ==
    IF tws = << >> THEN local
    ELSE LET tweet == Head(tws)
             with  == or_default(local, tweet.lang, EmptyMap)
             entry == CountWords(with[tweet.lang], TweetWords(a, tweet.text))
         IN  GroupWords(a, Put(with, tweet.lang, entry), Tail(tws))

\* -------------------------------------------------------- file discovery

\* WalkDir::new(root).into_iter(): the root and the entries below it, or the one
\* error of a root that cannot be read.
WalkDir(root, exists, entries) ==
    IF exists THEN << root >> \o entries ELSE << "missing" >>

\* filter_map(|e| e.ok()), then the filter on the extension.
IsInputFile(entry) == Disk(entry).walk_ok /\ Disk(entry).ext = "bz2"

\* TweetCompiler::from_directory(dir), up to the construction of Self.
from_directory(root, exists, entries) ==
    SelectSeq(WalkDir(root, exists, entries), IsInputFile)

\* gather_files: the walk from the root "sources".
gather_files(exists, entries) ==
    SelectSeq(WalkDir("sources", exists, entries), IsInputFile)

\* ------------------------------------------------------------------ state

VARIABLES
    root,            \* the path of the input root
    root_exists,     \* whether the input root can be walked
    dir,             \* the directory entries below the root, or the list of
                     \* paths given to TweetCompiler::new
    api,             \* the entry point that runs
    main_pc,         \* the position of the thread that called compile
    files,           \* input_files / self.files
    pc,              \* per file: the position of the closure run for it
    processed_count, \* the shared counter behind the Mutex
    count_lock,      \* the holder of the counter's Mutex
    my_count,        \* per file: the closure's processed_count (return_count)
    out,             \* the progress lines printed, as <<completed, total>>
    tweets,          \* per file: the records read_file returned
    local_map,       \* per file: the part of its local map not merged yet
    language_map,    \* the global map behind the RwLock
    map_lock,        \* the holder of the RwLock's write lock
    prune_todo,      \* the languages the purge loop has not visited yet
    result,          \* what compile returned
    handed,          \* history: per file, the local map as it was built
    merge_order,     \* history: the files whose merge is complete, in order
    pre_prune,       \* history: the global map when the purge began
    prune_runs,      \* history: how often the purge began
    token,           \* a string handed to the functions of util.rs / lib.rs
    cleaned,         \* what cleanup_word returned for it, call after call
    verdict          \* what word_qualifies returned, when it was called

vars ==
    << root, root_exists, dir, api, main_pc, files, pc, processed_count, count_lock,
       my_count, out, tweets, local_map, language_map, map_lock,
       prune_todo, result, handed, merge_order, pre_prune, prune_runs,
       token, cleaned, verdict >>

input_vars == << root, root_exists, dir, api >>
count_vars == << processed_count, count_lock, my_count, out >>
merge_vars == << local_map, language_map, map_lock, handed, merge_order >>
prune_vars == << prune_todo, result, pre_prune, prune_runs >>
compile_vars ==
    << main_pc, files, pc, count_vars, tweets, merge_vars, prune_vars >>
word_vars == << token, cleaned, verdict >>

\* Threads as lock holders.
Unlocked == << "unlocked" >>
MainThread == << "main" >>
Task(t) == << "task", t >>

Tasks == 1..Len(files)

\* The files whose merge is complete.
Merged == {merge_order[i] : i \in 1..Len(merge_order)}

NoResult == [returned |-> FALSE, ok |-> FALSE, map |-> EmptyMap]

\* The roots TweetCompiler::from_directory is called with: a directory, or
\* the path of a file.
Roots == {"sources", "short.bz2"}

\* The state when compile is called, for the directory trees and the entry
\* points given; tokens are the strings that the functions on words may be
\* called with on their own.
InitFrom(dirs, apis, tokens) ==
    /\ api \in apis
    /\ root \in (IF api = "TweetCompiler::from_directory" THEN Roots
                 ELSE {"sources"})
    /\ root_exists \in (IF api \in {"compile_word_map", "TweetCompiler::from_directory"}
                        THEN BOOLEAN ELSE {TRUE})
    /\ dir \in dirs
    /\ ~root_exists => dir = << >>
    /\ root # "sources" => dir = << >>
    /\ api = "TweetCompiler::default" => dir = << >>
    /\ main_pc = "gather"
    /\ files = << >>
    /\ pc = << >>
    /\ processed_count = 0
    /\ count_lock = Unlocked
    /\ my_count = << >>
    /\ out = << >>
    /\ tweets = << >>
    /\ local_map = << >>
    /\ language_map = EmptyMap
    /\ map_lock = Unlocked
    /\ prune_todo = {}
    /\ result = NoResult
    /\ handed = << >>
    /\ merge_order = << >>
    /\ pre_prune = EmptyMap
    /\ prune_runs = 0
    /\ token \in tokens
    /\ cleaned = << >>
    /\ verdict = << >>

\* The twc binary: main calls compile_word_map.
Init == InitFrom(Dirs, {"compile_word_map"}, {<< >>})

\* Every entry point, over the directory trees with the frequent word.
InitFrequent == InitFrom(FrequentDirs, Apis, {<< >>})

\* Every entry point, over the directory trees of short files.
InitShort == InitFrom(ShortDirs, Apis, {<< >>})

\* Every entry point, over the directory trees with the tokens to normalize.
InitText == InitFrom(TextDirs, Apis, {<< >>})

\* ------------------------------------------------------- the main thread

\* The set-up before the parallel loop, for the list of input files.
SetUp(input_files) ==
    /\ files' = input_files
    /\ pc' = [t \in 1..Len(files') |-> "queued"]
    /\ my_count' = [t \in 1..Len(files') |-> 0]
    /\ tweets' = [t \in 1..Len(files') |-> << >>]
    /\ local_map' = [t \in 1..Len(files') |-> EmptyMap]
    /\ handed' = [t \in 1..Len(files') |-> EmptyMap]
    /\ main_pc' = "for_each"
    /\ UNCHANGED << input_vars, word_vars,
                    processed_count, count_lock, out, language_map,
                    map_lock, merge_order, prune_vars >>

\* compile_word_map: gather_files(), then the set-up.
GatherFiles ==
    /\ main_pc = "gather"
    /\ api = "compile_word_map"
    /\ SetUp(gather_files(root_exists, dir))

\* TweetCompiler::new(files).compile(): the list of the caller, as it is.
New ==
    /\ main_pc = "gather"
    /\ api = "TweetCompiler::new"
    /\ SetUp(dir)

\* TweetCompiler::from_directory(dir).compile(): the walk from the root given.
FromDirectory ==
    /\ main_pc = "gather"
    /\ api = "TweetCompiler::from_directory"
    /\ SetUp(from_directory(root, root_exists, dir))

\* TweetCompiler::default().compile(): no file.
Default ==
    /\ main_pc = "gather"
    /\ api = "TweetCompiler::default"
    /\ SetUp(<< >>)

\* A slip: the purge begins once every file was taken up, without waiting
\* for the closures to end.
ForEachDone_started == \A t \in 1..Len(files) : pc[t] # "queued"

\* for_each returns when the closure has run to its end for every file.
ForEachDone == \A t \in Tasks : pc[t] = "done"

JoinWorkers ==
    /\ main_pc = "for_each"
    /\ ForEachDone
    /\ main_pc' = "purge_lock"
    /\ UNCHANGED << input_vars, word_vars,
                    files, pc, count_vars, tweets, merge_vars,
                    prune_vars >>

\* A slip: the global map without its lock.
WriteLockFree_racy == TRUE

\* RwLock::write() returns once no thread holds the lock.
WriteLockFree == map_lock = Unlocked

\* language_map.write() of the purge loop.
PurgeLock ==
    /\ main_pc = "purge_lock"
    /\ WriteLockFree
    /\ map_lock' = MainThread
    /\ prune_todo' = DOMAIN language_map
    /\ pre_prune' = language_map
    /\ prune_runs' = prune_runs + 1
    /\ main_pc' = "purge"
    /\ UNCHANGED << input_vars, word_vars,
                    files, pc, count_vars, tweets, local_map,
                    language_map, handed, merge_order, result >>

\* The frequency below which a word is purged.
PruneThreshold == 100

\* A slip: <= in place of <.
Infrequent_inclusive(count) == count <= PruneThreshold

\* The filter of the purge: count < 100_u64.
Infrequent(count) == count < PruneThreshold

\* The body of the purge loop: the infrequent words of one word map are
\* collected and removed.
PurgeWordMap(word_map) ==
    LET infrequent_word_pairs == {key \in DOMAIN word_map : Infrequent(word_map[key])}
    IN  [key \in DOMAIN word_map \ infrequent_word_pairs |-> word_map[key]]

\* A slip: the purge removes a language that it leaves without words.
PurgeLanguage_drops_empty ==
    /\ main_pc = "purge"
    /\ \E language \in prune_todo :
          /\ language_map' =
                IF PurgeWordMap(language_map[language]) = EmptyMap
                THEN Remove(language_map, language)
                ELSE [language_map EXCEPT ![language] = PurgeWordMap(@)]
          /\ prune_todo' = prune_todo \ {language}
    /\ UNCHANGED << input_vars, word_vars,
                    main_pc, files, pc, count_vars, tweets,
                    local_map, map_lock, handed, merge_order, result,
                    pre_prune, prune_runs >>

\* One turn of the purge loop over values_mut(), in the map's own order.
PurgeLanguage ==
    /\ main_pc = "purge"
    /\ \E language \in prune_todo :
          /\ language_map' =
                [language_map EXCEPT ![language] = PurgeWordMap(@)]
          /\ prune_todo' = prune_todo \ {language}
    /\ UNCHANGED << input_vars, word_vars,
                    main_pc, files, pc, count_vars, tweets,
                    local_map, map_lock, handed, merge_order, result,
                    pre_prune, prune_runs >>

\* The end of the purge loop, where the write guard is dropped, and
\* Ok(language_map.into_inner()).
Return ==
    /\ main_pc = "purge"
    /\ prune_todo = {}
    /\ map_lock' = Unlocked
    /\ result' = [returned |-> TRUE, ok |-> TRUE, map |-> language_map]
    /\ main_pc' = "returned"
    /\ UNCHANGED << input_vars, word_vars,
                    files, pc, count_vars, tweets, local_map,
                    language_map, handed, merge_order, prune_todo, pre_prune,
                    prune_runs >>

\* --------------------------------------------- the closure, once per file

\* A slip: the pool takes up a file again that it is through with.
StartTask_again(t) ==
    /\ main_pc = "for_each"
    /\ pc[t] \in {"queued", "done"}
    /\ pc' = [pc EXCEPT ![t] = "lock_count"]
    /\ UNCHANGED << input_vars, word_vars,
                    main_pc, files, count_vars, tweets, merge_vars,
                    prune_vars >>

\* The pool takes the file up and calls the closure.
StartTask(t) ==
    /\ main_pc = "for_each"
    /\ pc[t] = "queued"
    /\ pc' = [pc EXCEPT ![t] = "lock_count"]
    /\ UNCHANGED << input_vars, word_vars,
                    main_pc, files, count_vars, tweets, merge_vars,
                    prune_vars >>

\* processed_count.lock()
LockCount(t) ==
    /\ pc[t] = "lock_count"
    /\ count_lock = Unlocked
    /\ count_lock' = Task(t)
    /\ pc' = [pc EXCEPT ![t] = "count"]
    /\ UNCHANGED << input_vars, word_vars,
                    main_pc, files, processed_count, my_count, out,
                    tweets, merge_vars, prune_vars >>

\* A slip: the counter's guard lives to the end of the closure.
AfterCountBlock_held(t) == Task(t)

\* The holder of the counter's lock after the block that reads and increments
\* the counter: the guard is dropped at the end of the block.
AfterCountBlock(t) == Unlocked

\* return_count = *processed_count; *processed_count += 1
Count(t) ==
    /\ pc[t] = "count"
    /\ my_count' = [my_count EXCEPT ![t] = processed_count]
    /\ processed_count' = processed_count + 1
    /\ count_lock' = AfterCountBlock(t)
    /\ pc' = [pc EXCEPT ![t] = "print"]
    /\ UNCHANGED << input_vars, word_vars,
                    main_pc, files, out, tweets, merge_vars,
                    prune_vars >>

\* The period of the progress lines.
ProgressEvery == 100

\* processed_count % 100 == 0 || processed_count == file_count - 1
ShouldPrint(count, file_count) ==
    count % ProgressEvery = 0 \/ count = file_count - 1

PrintProgress(t) ==
    /\ pc[t] = "print"
    /\ out' = IF ShouldPrint(my_count[t], Len(files))
              THEN Append(out, << my_count[t], Len(files) >>)
              ELSE out
    /\ pc' = [pc EXCEPT ![t] = "read"]
    /\ UNCHANGED << input_vars, word_vars,
                    main_pc, files, processed_count, count_lock,
                    my_count, tweets, merge_vars, prune_vars >>

\* if let Ok(tweets) = read_file(file): a file that fails ends the closure.
ReadFile(t) ==
    /\ pc[t] = "read"
    /\ LET read == read_file(files[t])
       IN  IF read.ok
           THEN /\ tweets' = [tweets EXCEPT ![t] = read.tweets]
                /\ pc' = [pc EXCEPT ![t] = "group"]
           ELSE /\ tweets' = tweets
                /\ pc' = [pc EXCEPT ![t] = "done"]
    /\ UNCHANGED << input_vars, word_vars,
                    main_pc, files, count_vars, merge_vars,
                    prune_vars >>

\* A slip: the first loop counts into the global map as well, without its
\* lock.
Group_into_global(t) ==
    /\ pc[t] = "group"
    /\ LET built == GroupWords(api, EmptyMap, tweets[t])
       IN  /\ local_map' = [local_map EXCEPT ![t] = built]
           /\ handed' = [handed EXCEPT ![t] = built]
           /\ language_map' =
                 [language \in DOMAIN language_map \cup DOMAIN built |->
                     IF language \in DOMAIN built
                     THEN built[language]
                     ELSE language_map[language]]
    /\ tweets' = [tweets EXCEPT ![t] = << >>]
    /\ pc' = [pc EXCEPT ![t] = "lock_map"]
    /\ UNCHANGED << input_vars, word_vars,
                    main_pc, files, count_vars, map_lock, merge_order,
                    prune_vars >>

\* The first loop of process_tweets: the tweets are consumed into the local map.
Group(t) ==
    /\ pc[t] = "group"
    /\ LET built == GroupWords(api, EmptyMap, tweets[t])
       IN  /\ local_map' = [local_map EXCEPT ![t] = built]
           /\ handed' = [handed EXCEPT ![t] = built]
    /\ tweets' = [tweets EXCEPT ![t] = << >>]
    /\ pc' = [pc EXCEPT ![t] = "lock_map"]
    /\ UNCHANGED << input_vars, word_vars,
                    main_pc, files, count_vars, language_map,
                    map_lock, merge_order, prune_vars >>

\* global_map.write()
LockMap(t) ==
    /\ pc[t] = "lock_map"
    /\ WriteLockFree
    /\ map_lock' = Task(t)
    /\ pc' = [pc EXCEPT ![t] = "merge"]
    /\ UNCHANGED << input_vars, word_vars,
                    main_pc, files, count_vars, tweets, local_map,
                    language_map, handed, merge_order, prune_vars >>

\* A slip: = count in place of += count.
merge_overwrite(old, count) == count

\* += count
merge_add(old, count) == old + count

\* for (word, count) in word_map { *language_entry.entry(word).or_default()
\* += count }, as the loop's result: every word of the local word map starts
\* at its count in the global entry, or at the default 0, and count is added.
MergeWords(language_entry, word_map) ==
    [word \in DOMAIN language_entry \cup DOMAIN word_map |->
        IF word \in DOMAIN word_map
        THEN merge_add(or_default(language_entry, word, 0)[word], word_map[word])
        ELSE language_entry[word]]

\* One turn of the outer merge loop: the next language of the local map, in
\* the map's own order; its entry in the global map is got or created, and
\* the language's words are added to it.
MergeLanguage(t) ==
    /\ pc[t] = "merge"
    /\ \E language \in DOMAIN local_map[t] :
          /\ language_map' =
                [or_default(language_map, language, EmptyMap) EXCEPT
                    ![language] = MergeWords(@, local_map[t][language])]
          /\ local_map' = [local_map EXCEPT ![t] = Remove(@, language)]
    /\ UNCHANGED << input_vars, word_vars,
                    main_pc, files, pc, count_vars, tweets,
                    map_lock, handed, merge_order, prune_vars >>

\* A slip: the closure ends and the write guard is never dropped.
MergeUnlock_keeps_guard(t) ==
    /\ pc[t] = "merge"
    /\ DOMAIN local_map[t] = {}
    /\ merge_order' = Append(merge_order, t)
    /\ pc' = [pc EXCEPT ![t] = "done"]
    /\ UNCHANGED << input_vars, word_vars,
                    main_pc, files, count_vars, tweets, local_map,
                    language_map, map_lock, handed, prune_vars >>

\* The end of process_tweets: the write guard is dropped and the closure ends.
MergeUnlock(t) ==
    /\ pc[t] = "merge"
    /\ DOMAIN local_map[t] = {}
    /\ map_lock' = Unlocked
    /\ merge_order' = Append(merge_order, t)
    /\ pc' = [pc EXCEPT ![t] = "done"]
    /\ UNCHANGED << input_vars, word_vars,
                    main_pc, files, count_vars, tweets, local_map,
                    language_map, handed, prune_vars >>

\* The steps of compile_word_map and of TweetCompiler::compile from the
\* parallel loop on.
Compile ==
    \/ JoinWorkers
    \/ PurgeLock
    \/ PurgeLanguage
    \/ Return
    \/ \E t \in Tasks : StartTask(t)
    \/ \E t \in Tasks : LockCount(t)
    \/ \E t \in Tasks : Count(t)
    \/ \E t \in Tasks : PrintProgress(t)
    \/ \E t \in Tasks : ReadFile(t)
    \/ \E t \in Tasks : Group(t)
    \/ \E t \in Tasks : LockMap(t)
    \/ \E t \in Tasks : MergeLanguage(t)
    \/ \E t \in Tasks : MergeUnlock(t)

\* The twc binary.
Next == GatherFiles \/ Compile

\* Every entry point of the library.
NextAny == GatherFiles \/ New \/ FromDirectory \/ Default \/ Compile

Spec == Init /\ [][Next]_vars

\* The runs over the directory trees of short files in which a thread that
\* can take a step takes one in the end: the operating system schedules the
\* main thread and the threads of the pool, and the pool runs every closure
\* it was given.
SpecFair == InitShort /\ [][NextAny]_vars /\ WF_vars(NextAny)

\* The runs over the directory trees with the frequent word.
SpecFrequent == InitFrequent /\ [][NextAny]_vars

\* The runs over the directory trees with the tokens to normalize.
SpecText == InitText /\ [][NextAny]_vars

\* ------------------------------ the functions on words, called on their own

\* How often cleanup_word is applied to what it returned.
MaxCleanups == 2

\* Characters beyond ASCII that the strings below are made of.
NBSP == 160
COMBINING_GRAVE == 768
LEFT_DOUBLE_QUOTE == 8220
RIGHT_DOUBLE_QUOTE == 8221
FITZPATRICK_1_2 == 127995
GRINNING_FACE == 128512

W_alice == Str(<< "a", "l", "i", "c", "e" >>)
W_at_alice == Str(<< "@", "a", "l", "i", "c", "e" >>)
W_http_x_co == Str(<< "h", "t", "t", "p", ":", "/", "/", "x", ".", "c", "o" >>)
W_x_co == Str(<< "x", ".", "c", "o" >>)
W_Rt == Str(<< "R", "t" >>)

\* Tokens at and next to each arm of word_qualifies.
RuleTokens ==
    { << >>, Str(<< "a" >>), << GRINNING_FACE >>,
      W_at_alice, W_alice, Str(<< "a", "@", "b" >>),
      Str(<< "#", "t", "a", "g" >>), Str(<< "t", "#", "g" >>),
      W_http_x_co, W_x_co,
      Str(<< "h", "t", "t", "p", "s", ":", "/", "/" >>),
      Str(<< "s", "f", "t", "p", ":", "/", "/", "x" >>),
      Str(<< "d", "a", "t", "a", ":", "x" >>),
      Str(<< "m", "a", "i", "l", "t", "o", ":", "b", "o", "b" >>),
      Str(<< "1", ":", "2" >>),
      W_num, Str(<< "1", "a" >>),
      << GRINNING_FACE, FITZPATRICK_1_2 >>, << GRINNING_FACE, Ord("a") >>,
      << 1, 2 >>, << 127, 127 >>, << 1, Ord("a") >>,
      W_amp, Str(<< "&", "a", "m", "p" >>), Str(<< "a", "m", "p", ";" >>),
      Str(<< "!", "?" >>), Str(<< "@", "#" >>), Str(<< "!", "a" >>),
      << Ord("a"), COMBINING_GRAVE, COMBINING_GRAVE, COMBINING_GRAVE,
         COMBINING_GRAVE >>,
      << Ord("a"), COMBINING_GRAVE, COMBINING_GRAVE, COMBINING_GRAVE >>,
      W_RT, W_Rt, Str(<< "R", "T", "s" >>), W_hello }

\* Tokens whose ends mix whitespace, quotation marks and symbols.
EdgeTokens ==
    { << SPACE >> \o W_hello \o << SPACE >>,
      Str(<< "\"" >>) \o W_hello \o Str(<< ",", "\"" >>),
      Str(<< ",", "\"" >>) \o W_hello \o Str(<< "\"", "," >>),
      Str(<< "!", " " >>) \o W_hello,
      << Ord("!"), NBSP >> \o W_hello,
      W_hello \o << NBSP, Ord("?") >>,
      << LEFT_DOUBLE_QUOTE >> \o W_hello \o << RIGHT_DOUBLE_QUOTE >>,
      << Ord("."), LEFT_DOUBLE_QUOTE >> \o W_hello,
      << 9 >> \o W_hello \o << 10 >>,
      Str(<< "'" >>) \o W_hello \o Str(<< "'" >>),
      Str(<< "(" >>) \o W_hi \o Str(<< ")" >>),
      Str(<< "d", "o", "n", "'", "t" >>),
      Str(<< "!", "\"", " ", "\"", "!" >>) }

\* Tokens at and next to the rules of Url::parse and of char::is_numeric:
\* ports, IPv6 and IPv4 hosts, percent escapes, credentials, hosts of URLs
\* that are not special and of file URLs, labels in Punycode that decode,
\* that do not, and that decode to a joiner at the start or after a letter,
\* a line feed inside a token, digits and letters beyond ASCII.
ParserTokens ==
    {
      Str(<< "w", "s", ":", "/", "/", "x", ":", "8", "0" >>),
      Str(<< "w", "s", ":", "/", "/", "x", ":", "a", "b", "c" >>),
      Str(<< "w", "s", ":", "/", "/", "x", ":", "9", "9", "9", "9", "9" >>),
      Str(<< "w", "s", ":", "/", "/", "[", ":", ":", "1", "]" >>),
      Str(<< "w", "s", ":", "/", "/", "[", ":", ":", "1", ".", "2", ".", "3",
           ".", "4", "]" >>),
      Str(<< "w", "s", ":", "/", "/", "[", "1", ":", ":", "2", ":", ":", "3",
           "]" >>),
      Str(<< "w", "s", ":", "/", "/", "a", "%", "b" >>),
      Str(<< "w", "s", ":", "/", "/", "%", "4", "1" >>),
      Str(<< "w", "s", ":", "/", "/", "1", ".", "2", ".", "3", ".", "4" >>),
      Str(<< "w", "s", ":", "/", "/", "1", ".", "2", ".", "3", ".", "2", "5",
           "6" >>),
      Str(<< "w", "s", ":", "/", "/", "0", "x", "7", "f", ".", "1" >>),
      Str(<< "w", "s", ":", "/", "/", "u", "@", "x" >>),
      Str(<< "f", "o", "o", ":", "/", "/", "a", "^", "b" >>),
      Str(<< "f", "o", "o", ":", "/", "/", "a", "%", "b" >>),
      Str(<< "f", "o", "o", ":", "/", "/", "@", "/" >>),
      Str(<< "f", "i", "l", "e", ":", "/", "/", "a", ":", "b" >>),
      Str(<< "f", "i", "l", "e", ":", "/", "/", "C", ":" >>),
      Str(<< "f", "i", "l", "e", ":", "x" >>),
      Str(<< "h", "t", "t", "p", ":" >>),
      Str(<< "w", "s", ":", "x" >>),
      Str(<< "g", "o", "o", "d" >>) \o << 10 >> \o Str(<< "n", "e", "w", "s", ":", "x" >>),
      Str(<< "w", "s", ":", "/", "/", "a" >>) \o << 127 >>,
      Str(<< "w", "s", ":", "/", "/" >>) \o << COMBINING_GRAVE >>,
      Str(<< "w", "s", ":", "/", "/", "x", "n", "-", "-", "1" >>),
      Str(<< "w", "s", ":", "/", "/", "a", ".", "X", "n", "-", "-" >>),
      Str(<< "f", "i", "l", "e", ":", "/", "/", "x", "n", "-", "-" >>),
      Str(<< "w", "s", ":", "/", "/", "x", "n", "-" >>),
      Str(<< "w", "s", ":", "/", "/" >>) \o << 233 >>,
      Str(<< "w", "s", ":", "/", "/", "%", "C", "3", "%", "A", "9" >>),
      Str(<< "w", "s", ":", "/", "/", "%", "E", "2", "%", "8", "2" >>),
      Str(<< "w", "s", ":", "/", "/", "x", "n", "-", "-", "p", "1", "a", "i" >>),
      Str(<< "w", "s", ":", "/", "/", "x", "n", "-", "-", "a" >>),
      Str(<< "w", "s", ":", "/", "/", "x", "n", "-", "-", "f" >>),
      Str(<< "w", "s", ":", "/", "/", "X", "N", "-", "-", "P", "1", "A", "I" >>),
      Str(<< "f", "i", "l", "e", ":", "/", "/", "x", "n", "-", "-", "b", "c",
           "h", "e", "r", "-", "k", "v", "a" >>),
      Str(<< "w", "s", ":", "/", "/", "a", ".", "x", "n", "-", "-", "a", "-",
           "b", ".", "c" >>),
      Str(<< "f", "o", "o", ":", "/", "/", "x", "n", "-", "-", "1" >>),
      Str(<< "w", "s", ":", "/", "/", "x", "n", "-", "-", "1", "u", "g" >>),
      Str(<< "w", "s", ":", "/", "/", "x", "n", "-", "-", "0", "u", "g" >>),
      Str(<< "w", "s", ":", "/", "/", "x", "n", "-", "-", "a", "-", "t", "g",
           "n" >>),
      Str(<< "w", "s", ":", "/", "/", "x", "n", "-", "-", "a", "-", "u", "g",
           "n" >>),
      Str(<< "f", "i", "l", "e", ":", "/", "/", "x", "n", "-", "-", "1", "u",
           "g" >>),
      << 73184, 73184 >>, << 94196, 94198 >>,
      << 1161, 1161, 1161, 1161, Ord("a") >>, << 1161, 1161, 1161, Ord("a") >>,
      << 2407, 2408 >>, << 65297, 65298 >>, << 1776, Ord("1") >>,
      << 8579, 8580 >>, << 8544, 8545 >> }

Tokens == RuleTokens \cup EdgeTokens \cup ParserTokens

\* The string the next call is made with: what the last call of cleanup_word
\* returned, or the token.
Subject == IF cleaned = << >> THEN token ELSE cleaned[Len(cleaned)]

\* A call of cleanup_word (of lib.rs or of util.rs) with the subject.
Cleanup ==
    /\ verdict = << >>
    /\ Len(cleaned) < MaxCleanups
    /\ cleaned' = Append(cleaned, cleanup_word(api, Subject))
    /\ UNCHANGED << input_vars, compile_vars, token, verdict >>

\* A call of word_qualifies with the subject.
Qualify ==
    /\ verdict = << >>
    /\ verdict' = << word_qualifies(Subject) >>
    /\ UNCHANGED << input_vars, compile_vars, token, cleaned >>

\* No directory tree: the functions on words are called without compile,
\* those of lib.rs and those of util.rs.
InitWords ==
    /\ InitFrom({<< >>}, {"compile_word_map", "TweetCompiler::new"}, Tokens)
    /\ root_exists

NextWords == Cleanup \/ Qualify

\* The calls of cleanup_word and word_qualifies on the tokens.
SpecWords == InitWords /\ [][NextWords]_vars

\* ================================================================ claims

\* The count of a word of a language in a language map; 0 when it has none.
CountIn(map, language, word) ==
    IF language \in DOMAIN map /\ word \in DOMAIN map[language]
    THEN map[language][word]
    ELSE 0

\* The languages and the words that occur in the global map or in a local one.
KnownLanguages ==
    DOMAIN language_map \cup DOMAIN pre_prune
        \cup UNION {DOMAIN handed[t] : t \in Tasks}

KnownWords ==
    UNION {DOMAIN language_map[l] : l \in DOMAIN language_map}
        \cup UNION {DOMAIN pre_prune[l] : l \in DOMAIN pre_prune}
        \cup UNION {UNION {DOMAIN handed[t][l] : l \in DOMAIN handed[t]} : t \in Tasks}

\* What file t's merge has added for a word so far: its count in the local
\* map as built, less its count in the part not merged yet.
Applied(t, language, word) ==
    CountIn(handed[t], language, word) - CountIn(local_map[t], language, word)

RECURSIVE AppliedUpTo(_, _, _)
AppliedUpTo(n, language, word) ==
    IF n = 0 THEN 0
    ELSE AppliedUpTo(n - 1, language, word) + Applied(n, language, word)

\* The global map as the merges left it: the map itself until the purge
\* begins, and the map the purge began with afterwards.
MergedMap == IF main_pc \in {"purge", "returned"} THEN pre_prune ELSE language_map

\* C1: merge is an additive fold. In every state, the merged count of every
\* (language, word) pair is the sum of what the merges have added for it, a
\* pair has an entry exactly when some merge has added it, and when the same
\* file was merged twice and nothing else, every count is twice the file's.
C1_MergeIsAdditiveFold ==
    /\ \A language \in KnownLanguages : \A word \in KnownWords :
          /\ CountIn(MergedMap, language, word)
                = AppliedUpTo(Len(files), language, word)
          /\ (language \in DOMAIN MergedMap /\ word \in DOMAIN MergedMap[language])
                <=> AppliedUpTo(Len(files), language, word) > 0
    /\ (Len(files) = 2 /\ files[1] = files[2] /\ Merged = {1, 2}) =>
          \A language \in KnownLanguages : \A word \in KnownWords :
             CountIn(MergedMap, language, word)
                = 2 * CountIn(handed[1], language, word)

\* C1 witness: the same file was merged twice, and a word it counts three
\* times is counted six times.
C1_Witness ==
    /\ main_pc = "for_each"
    /\ files = << "scenario.bz2", "scenario.bz2" >>
    /\ Merged = {1, 2}
    /\ CountIn(handed[1], "en", W_hello) = 3
    /\ CountIn(language_map, "en", W_hello) = 6

\* C2: merges exclude each other. At most one closure is between taking the
\* write lock and dropping it, that closure is the lock's holder, and while a
\* local map is applied in part no other closure and no purge is at the
\* global map.
C2_MergeAtomic ==
    /\ Cardinality({t \in Tasks : pc[t] = "merge"}) <= 1
    /\ \A t \in Tasks : pc[t] = "merge" <=> map_lock = Task(t)
    /\ \A t \in Tasks :
          (local_map[t] # handed[t] /\ local_map[t] # EmptyMap) =>
             /\ map_lock = Task(t)
             /\ main_pc = "for_each"
             /\ \A u \in Tasks \ {t} : pc[u] # "merge"

\* C2 witness: a local map is applied in part while another closure waits
\* for the write lock.
C2_Witness ==
    \E t, u \in Tasks :
       /\ t # u
       /\ pc[t] = "merge"
       /\ local_map[t] # handed[t]
       /\ local_map[t] # EmptyMap
       /\ pc[u] = "lock_map"

\* The files that can be opened and decompressed.
Readable == {t \in Tasks : Disk(files[t]).readable}

\* C3: the purge is behind a barrier. From the moment the main thread goes
\* for the purge, every closure has ended, every file that could be read is
\* merged and no local map is left over; the purge begins once, and the
\* global map only loses words of the map the purge began with.
C3_PruneBarrier ==
    /\ main_pc \in {"gather", "for_each"} => prune_runs = 0
    /\ main_pc = "purge_lock" => prune_runs = 0
    /\ main_pc \in {"purge", "returned"} => prune_runs = 1
    /\ main_pc \in {"purge_lock", "purge", "returned"} =>
          /\ \A t \in Tasks : pc[t] = "done" /\ local_map[t] = EmptyMap
          /\ Merged = Readable
          /\ Len(merge_order) = Cardinality(Readable)
    /\ main_pc \in {"purge", "returned"} =>
          /\ DOMAIN language_map = DOMAIN pre_prune
          /\ \A language \in DOMAIN language_map :
                \A word \in DOMAIN language_map[language] :
                   CountIn(pre_prune, language, word)
                      = language_map[language][word]

\* C3 witness: the purge is under way after two files were merged.
C3_Witness ==
    /\ main_pc = "purge"
    /\ Len(merge_order) = 2
    /\ prune_todo # DOMAIN language_map

\* C4: the postcondition of the purge, for the threshold of the code. In the
\* map compile returns, every language of the merged map is there, every
\* count is at least the threshold and is the merged count, and a word of a
\* language is gone exactly when its merged count in that language was below
\* the threshold.
C4_PrunePostcondition ==
    main_pc = "returned" =>
       /\ DOMAIN result.map = DOMAIN pre_prune
       /\ \A language \in DOMAIN pre_prune :
             /\ DOMAIN result.map[language] \subseteq DOMAIN pre_prune[language]
             /\ \A word \in DOMAIN pre_prune[language] :
                   /\ word \notin DOMAIN result.map[language]
                         <=> pre_prune[language][word] < PruneThreshold
                   /\ word \in DOMAIN result.map[language] =>
                         /\ result.map[language][word] >= PruneThreshold
                         /\ result.map[language][word] = pre_prune[language][word]
       /\ \A language \in DOMAIN pre_prune : \A word \in DOMAIN pre_prune[language] :
             pre_prune[language][word]
                = AppliedUpTo(Len(files), language, word)

\* C4 witness: a word with exactly the threshold in one language and less in
\* another is kept in the first and removed from the second.
C4_Witness ==
    /\ main_pc = "returned"
    /\ CountIn(pre_prune, "en", W_hi) = PruneThreshold
    /\ CountIn(result.map, "en", W_hi) = PruneThreshold
    /\ CountIn(pre_prune, "de", W_hi) = PruneThreshold - 2
    /\ W_hi \notin DOMAIN result.map["de"]
    /\ W_hello \notin DOMAIN result.map["en"]

\* The local map of a file, or nothing for a file that cannot be read.
LocalTableOf(filename) ==
    IF Disk(filename).readable
    THEN GroupWords(api, EmptyMap, read_file(filename).tweets)
    ELSE EmptyMap

\* The second loop of process_tweets run to its end on a global map.
MergeLocal(global, local) ==
    [language \in DOMAIN global \cup DOMAIN local |->
        IF language \in DOMAIN local
        THEN MergeWords(or_default(global, language, EmptyMap)[language],
                        local[language])
        ELSE global[language]]

\* The local maps of the first n files merged one after the other, in the
\* order of the file list.
RECURSIVE MergedInListOrder(_)
MergedInListOrder(n) ==
    IF n = 0 THEN EmptyMap
    ELSE MergeLocal(MergedInListOrder(n - 1), LocalTableOf(files[n]))

PurgeAll(map) == [language \in DOMAIN map |-> PurgeWordMap(map[language])]

\* C5: the merge order does not matter. Whatever order the closures merged
\* in, the global map after the last merge is the one that merging the local
\* maps one by one in the order of the file list gives, and the map returned
\* is that map purged.
C5_MergeOrderIndependent ==
    /\ main_pc = "purge_lock" => language_map = MergedInListOrder(Len(files))
    /\ main_pc = "returned" => result.map = PurgeAll(MergedInListOrder(Len(files)))

\* C5 witness: two files that count the same word were merged against the
\* order of the file list.
C5_Witness ==
    /\ main_pc = "purge_lock"
    /\ files = << "scenario.bz2", "mixed.bz2" >>
    /\ merge_order = << 2, 1 >>
    /\ CountIn(language_map, "en", W_hello) = 4

\* The sum of a word's counts over the local maps of the first n files.
RECURSIVE ContributionsUpTo(_, _, _)
ContributionsUpTo(n, language, word) ==
    IF n = 0 THEN 0
    ELSE ContributionsUpTo(n - 1, language, word)
            + CountIn(LocalTableOf(files[n]), language, word)

\* C6: a file that cannot be read is skipped. Its closure ends without a
\* local map and without a merge; every file that can be read is merged; the
\* map before the purge holds exactly the sums over the files that could be
\* read; and compile returns Ok.
C6_SkipOnError ==
    /\ \A t \in Tasks \ Readable :
             /\ pc[t] \in {"queued", "lock_count", "count", "print", "read", "done"}
             /\ handed[t] = EmptyMap
             /\ local_map[t] = EmptyMap
             /\ t \notin Merged
    /\ main_pc = "purge_lock" =>
          /\ Merged = Readable
          /\ \A language \in KnownLanguages : \A word \in KnownWords :
                CountIn(language_map, language, word)
                   = ContributionsUpTo(Len(files), language, word)
          /\ DOMAIN language_map
                = UNION {DOMAIN LocalTableOf(files[t]) : t \in Tasks}
    /\ main_pc = "returned" => result.returned /\ result.ok

\* C6 witness: compile has returned for a file that cannot be read and one
\* that can, and the merged map is the second file's.
C6_Witness ==
    /\ main_pc = "returned"
    /\ files = << "corrupt.bz2", "scenario.bz2" >>
    /\ merge_order = << 2 >>
    /\ pre_prune = LocalTableOf("scenario.bz2")
    /\ result.ok

\* The lines of file t that decode, by position.
OkLines(t) ==
    {i \in 1..Len(Disk(files[t]).lines) : Disk(files[t]).lines[i].json_ok}

\* The words that the lines of a language that decode give, in the order of
\* the lines.
RECURSIVE WordsOfLines(_, _)
WordsOfLines(lines, language) ==
    IF lines = << >> THEN << >>
    ELSE (IF Head(lines).json_ok /\ Head(lines).lang = language
          THEN TweetWords(api, Head(lines).text)
          ELSE << >>)
         \o WordsOfLines(Tail(lines), language)

\* C7: a line that does not decode is skipped. The records read from a file
\* are those of all its lines that decode, in the order of the lines, before
\* and after any line that does not; the file is not failed, and its local
\* map counts the words of exactly these lines.
C7_SkipBadLines ==
    \A t \in Tasks :
       /\ pc[t] = "group" =>
             /\ Len(tweets[t]) = Cardinality(OkLines(t))
             /\ \A i \in OkLines(t) :
                   tweets[t][Cardinality({j \in OkLines(t) : j <= i})]
                      = [lang |-> Disk(files[t]).lines[i].lang,
                         text |-> Disk(files[t]).lines[i].text]
       /\ pc[t] = "lock_map" =>
             handed[t] =
                [language \in {Disk(files[t]).lines[i].lang : i \in OkLines(t)} |->
                    CountWords(EmptyMap,
                               WordsOfLines(Disk(files[t]).lines, language))]
       /\ (t \in Readable /\ pc[t] = "done") => t \in Merged

\* C7 witness: a file with a line that does not decode between lines that do
\* was read, and the lines before and after it are counted.
C7_Witness ==
    \E t \in Tasks :
       /\ files[t] = "mixed.bz2"
       /\ ~Disk(files[t]).lines[2].json_ok
       /\ pc[t] = "lock_map"
       /\ CountIn(handed[t], "de", W_ja) = 1
       /\ CountIn(handed[t], "en", W_hello) = 1

\* C8, as claimed: compile fails exactly when the root cannot be walked.
C8_FailsIffRootMissing ==
    main_pc = "returned" => (result.ok <=> root_exists)

\* C9, as claimed: for the scenario's two posts compile returns hello twice
\* and world once, the table the claim names for a threshold of 1, or hello
\* twice alone, the table it names for a threshold of 2.
C9_ScenarioAsClaimed ==
    (main_pc = "returned" /\ files = << "scenario.bz2" >>) =>
       \/ result.map = [en |-> (W_hello :> 2 @@ W_world :> 1)]
       \/ result.map = [en |-> (W_hello :> 2)]

\* A closure that waits for a lock another thread holds.
Blocked(t) ==
    \/ pc[t] = "lock_count" /\ count_lock # Unlocked
    \/ pc[t] = "lock_map" /\ map_lock # Unlocked

\* C10: the locks are never nested. No closure holds the counter's lock and
\* the write lock at once, the counter's lock is held only between taking it
\* and the increment, and while closures are unfinished one of them is not
\* waiting for a lock; the main thread finds the write lock free.
C10_NoNestedLocks ==
    /\ \A t \in Tasks : ~(count_lock = Task(t) /\ map_lock = Task(t))
    /\ \A t \in Tasks : count_lock = Task(t) <=> pc[t] = "count"
    /\ count_lock # MainThread
    /\ (main_pc = "for_each" /\ \E t \in Tasks : pc[t] # "done") =>
          \E t \in Tasks : pc[t] # "done" /\ ~Blocked(t)
    /\ main_pc = "purge_lock" => map_lock = Unlocked

\* C10 witness: both locks are held at once, by different closures.
C10_Witness ==
    \E t, u \in Tasks :
       /\ t # u
       /\ map_lock = Task(t)
       /\ count_lock = Task(u)

\* The eleven rejections of a token, each on its own.
Rejections(s) ==
    << Len(s) = 0 \/ Len(s) = 1,
       StartsWith(s, Str(<< "@" >>)),
       StartsWith(s, Str(<< "#" >>)),
       is_url(s),
       \A i \in 1..Len(s) : IsNumeric(s[i]),
       is_emoji(s),
       \A i \in 1..Len(s) : IsAsciiControl(s[i]),
       StartsWith(s, Str(<< "&" >>)) /\ EndsWith(s, Str(<< ";" >>)),
       is_only_symbols(s),
       is_zalgo(s),
       s = W_RT >>

\* C11: word_qualifies is true exactly when none of the eleven rejections
\* holds of the token, whichever of them would be looked at first; the
\* tokens @alice, http://x.co and RT are rejected, alice, x.co and Rt are
\* accepted. Of the tokens with a host in Punycode, the URL ws://xn--p1ai is
\* rejected and ws://xn--1, which Url::parse fails on, is accepted.
C11_QualifiesIffNoRejection ==
    verdict # << >> =>
       /\ verdict[1] <=> \A r \in 1..11 : ~Rejections(Subject)[r]
       /\ Subject \in {W_at_alice, W_http_x_co, W_RT, W_url} => ~verdict[1]
       /\ Subject \in {W_alice, W_x_co, W_Rt, W_no_url} => verdict[1]

\* C11 witness: word_qualifies has rejected RT, which only the last arm
\* rejects.
C11_Witness ==
    /\ verdict # << >>
    /\ cleaned = << >>
    /\ token = W_RT
    /\ ~verdict[1]
    /\ \A r \in 1..10 : ~Rejections(token)[r]

\* The characters cleanup_word trims: those of lib.rs, those of util.rs.
Trimmed(a) ==
    IF a = "compile_word_map" THEN Whitespace \cup LibCleanupSymbols
    ELSE Whitespace \cup QuotationMarks \cup UtilCleanupSymbols

\* C12, as claimed: a second cleanup_word returns what the first returned,
\* and what the first returned neither starts nor ends with a character of
\* the trimmed classes.
C12_CleanIdempotent ==
    /\ Len(cleaned) >= 2 => cleaned[2] = cleaned[1]
    /\ (Len(cleaned) >= 1 /\ cleaned[1] # << >>) =>
          /\ cleaned[1][1] \notin Trimmed(api)
          /\ cleaned[1][Len(cleaned[1])] \notin Trimmed(api)

\* Every word map there is: those of the local maps and of the global map.
WordMaps ==
    UNION {{local_map[t][l] : l \in DOMAIN local_map[t]} : t \in Tasks}
       \cup UNION {{handed[t][l] : l \in DOMAIN handed[t]} : t \in Tasks}
       \cup {language_map[l] : l \in DOMAIN language_map}

\* A word without the characters cleanup_word trims at its ends, in small
\* letters.
Normalized(word) ==
    LET trimmed == TrimMatches(word, Trimmed(api))
    IN  [i \in 1..Len(trimmed) |-> Lower(trimmed[i])]

\* C13, as claimed: no word map holds two keys that are one word in
\* different casings or with different characters to trim at their ends.
C13_NormalizedKeysUnique ==
    \A word_map \in WordMaps :
       \A k1, k2 \in DOMAIN word_map :
          Normalized(k1) = Normalized(k2) => k1 = k2

\* A piece that starts with & and ends with ;.
IsHtmlEscape(piece) ==
    StartsWith(piece, Str(<< "&" >>)) /\ EndsWith(piece, Str(<< ";" >>))

\* The words of a text as claimed: the pieces that are no HTML escapes,
\* cleaned, those that qualify kept.
WordsButEscapes(text) ==
    LET NoEscape(piece) == ~IsHtmlEscape(piece)
        pieces == SelectSeq(Split(text), NoEscape)
        clean  == [i \in 1..Len(pieces) |-> cleanup_word(api, pieces[i])]
    IN  SelectSeq(clean, word_qualifies)

\* How often the word is among the words, as claimed, of the lines of file t
\* that decode to a record of the language.
CountButEscapes(t, language, word) ==
    LET lines == Disk(files[t]).lines
        at == UNION {{<< i, j >> : j \in 1..Len(WordsButEscapes(lines[i].text))} :
                        i \in {k \in OkLines(t) : lines[k].lang = language}}
    IN  Cardinality({ij \in at :
                        WordsButEscapes(lines[ij[1]].text)[ij[2]] = word})

\* C17, as claimed: the local map of a file counts the cleaned pieces that
\* qualify, and counts nothing for a piece that is an HTML escape.
C17_EscapesNotCounted ==
    \A t \in Tasks :
       pc[t] = "lock_map" =>
          \A language \in DOMAIN handed[t] :
             \A word \in DOMAIN handed[t][language] :
                handed[t][language][word] = CountButEscapes(t, language, word)

\* C14: every file is handed on exactly once. There is one closure per file
\* gathered and the counter has counted each closure that took its number
\* once; a closure's local map is empty until it has read its file, is then
\* the map of that file's records alone, and is empty again at the end; the
\* closure of a file that was read has merged exactly once when it ends, that
\* of a file that failed never.
C14_ExactlyOnceHandoff ==
    /\ main_pc # "gather" =>
          /\ Len(pc) = Len(files)
          /\ root_exists =>
                Len(files) = Cardinality({i \in 1..Len(dir) : IsInputFile(dir[i])})
    /\ processed_count
          = Cardinality({t \in Tasks : pc[t] \notin {"queued", "lock_count", "count"}})
    /\ \A i, j \in 1..Len(merge_order) :
          merge_order[i] = merge_order[j] => i = j
    /\ \A t \in Tasks :
          /\ pc[t] \in {"queued", "lock_count", "count", "print", "read", "group"} =>
                /\ local_map[t] = EmptyMap
                /\ handed[t] = EmptyMap
                /\ t \notin Merged
          /\ pc[t] \in {"lock_map", "merge"} =>
                /\ t \in Readable
                /\ t \notin Merged
          /\ pc[t] = "lock_map" =>
                /\ local_map[t] = handed[t]
                /\ handed[t] = LocalTableOf(files[t])
          /\ pc[t] = "done" =>
                /\ local_map[t] = EmptyMap
                /\ t \in Merged <=> t \in Readable

\* C14 witness: of two closures that have ended, the one whose file was read
\* has merged, once, and the one whose file failed has not.
C14_Witness ==
    /\ main_pc = "for_each"
    /\ files = << "mixed.bz2", "corrupt.bz2" >>
    /\ pc = << "done", "done" >>
    /\ merge_order = << 1 >>
    /\ processed_count = 2
    /\ handed[1] = LocalTableOf("mixed.bz2")

\* C15: only the merge and the purge change the global map. A step of a
\* closure that is not in its merge loop, and a step of the main thread
\* outside the purge, leave the global map as it is; a step that changes it
\* is a turn of the merge loop of the closure that holds the write lock, or a
\* turn of the purge loop; and while no closure has reached its merge loop
\* the global map is empty.
C15_GlobalMapFrame ==
    /\ [][ /\ \A t \in Tasks :
                (pc[t] # "merge" /\ pc'[t] # pc[t]) => language_map' = language_map
           /\ (main_pc # "purge" /\ main_pc' # main_pc) => language_map' = language_map
           /\ out' # out => language_map' = language_map
           /\ processed_count' # processed_count => language_map' = language_map
           /\ language_map' # language_map =>
                 \/ \E t \in Tasks : /\ pc[t] = "merge"
                                     /\ pc'[t] = "merge"
                                     /\ map_lock = Task(t)
                                     /\ local_map'[t] # local_map[t]
                 \/ main_pc = "purge" /\ map_lock = MainThread ]_vars
    /\ []((\A t \in Tasks : pc[t] \notin {"merge", "done"}) => language_map = EmptyMap)

\* C15 witness: a closure has built its local map and waits to merge it,
\* and the global map is what the other closure merged.
C15_Witness ==
    \E t, u \in Tasks :
       /\ pc[t] = "done"
       /\ pc[u] = "lock_map"
       /\ files[t] = "scenario.bz2"
       /\ files[u] = "mixed.bz2"
       /\ Len(out) = 2
       /\ local_map[u] # EmptyMap
       /\ language_map = handed[t]
       /\ language_map # EmptyMap

\* The closures that have run to their end.
Completed == {t \in Tasks : pc[t] = "done"}

\* C16, as claimed: the first number of a progress line is the number of
\* files whose processing is complete when the line is printed.
C16_ProgressCountsCompleted ==
    [][out' # out => out'[Len(out')][1] = Cardinality(Completed)]_vars

\* The pieces of the texts of the records of the files: the texts split at
\* the spaces.
Pieces ==
    UNION {UNION {{pieces[j] : j \in 1..Len(pieces)} :
                     pieces \in {Split(Disk(files[t]).lines[i].text) :
                                    i \in OkLines(t)}} :
             t \in Tasks}

\* The keys of all word maps, those of the map returned and of the map
\* before the purge included.
WordKeys ==
    UNION {DOMAIN word_map : word_map \in WordMaps}
       \cup UNION {DOMAIN pre_prune[l] : l \in DOMAIN pre_prune}
       \cup UNION {DOMAIN result.map[l] : l \in DOMAIN result.map}

\* C18: every key of every word map is what cleanup_word returned for a
\* piece of a text, and word_qualifies is true of it; no key is the empty
\* string or a string of one character.
C18_KeysQualify ==
    \E words \in {{cleanup_word(api, piece) : piece \in Pieces}} :
       \A key \in WordKeys :
          /\ word_qualifies(key)
          /\ Len(key) >= 2
          /\ key \in words

\* C18 witness: a text with two spaces in a row, a piece of one character
\* and a URL was counted and merged, and the global map has a key for none of
\* them.
C18_Witness ==
    /\ main_pc = "purge_lock"
    /\ files = << "entity.bz2" >>
    /\ << >> \in Pieces
    /\ Str(<< "a" >>) \in Pieces
    /\ W_url \in Pieces
    /\ DOMAIN language_map["en"] =
          {W_hi, Str(<< "a", "m", "p", ";" >>), W_no_url}

\* The language tags of the records that file t's lines decode to.
RecordLanguages(t) == {Disk(files[t]).lines[i].lang : i \in OkLines(t)}

\* C20: languages are never removed. A local map has an entry for the
\* language of every record of its file, whether a token qualified or not;
\* the global map has an entry for exactly the languages that the merges have
\* gone through, during the purge as before it; and the map returned has
\* exactly the languages of the records of the files that were read.
C20_LanguagesKept ==
    /\ \A t \in Tasks :
          pc[t] \in {"lock_map", "merge", "done"} /\ t \in Readable =>
             DOMAIN handed[t] = RecordLanguages(t)
    /\ DOMAIN language_map
          = UNION {DOMAIN handed[t] \ DOMAIN local_map[t] : t \in Tasks}
    /\ main_pc = "returned" =>
          DOMAIN result.map = UNION {RecordLanguages(t) : t \in Readable}

\* C20 witness: compile has returned a language whose word map was empty
\* when it was merged and a language that the purge left without words.
C20_Witness ==
    /\ main_pc = "returned"
    /\ files = << "mixed.bz2" >>
    /\ DOMAIN result.map = {"de", "en", "und"}
    /\ pre_prune["und"] = EmptyMap
    /\ pre_prune["de"] # EmptyMap
    /\ result.map["de"] = EmptyMap

\* compile is through: every closure has ended, the files that could be read
\* are merged, the purge has run over every language, and the map is returned.
Finished ==
    /\ main_pc = "returned"
    /\ \A t \in Tasks : pc[t] = "done"
    /\ Merged = Readable
    /\ prune_runs = 1
    /\ prune_todo = {}
    /\ map_lock = Unlocked
    /\ result.returned
    /\ result.map = language_map

\* C19: compile terminates. Under fair scheduling, whatever the list of
\* files, compile is through in the end.
C19_Terminates == <>Finished

\* C19 witness: compile is through for a file that was merged and a file
\* that was skipped.
C19_Witness ==
    /\ Finished
    /\ files = << "short.bz2", "corrupt.bz2" >>
    /\ merge_order = << 1 >>
    /\ DOMAIN result.map = {"de", "en"}

====
